---- MODULE Spec2Model ----
(***************************************************************************)
(* Privilege-lifecycle engine of the macOS privileges manager.             *)
(*                                                                         *)
(* One Electron main process (request-privileges, grant-privileges, the    *)
(* approval link, the expiry timers and restoreActivePrivileges) and the   *)
(* admin dashboard (HTTP routes and WebSocket messages) share one          *)
(* requests.json file.  Time is counted in ticks; a handler's awaits       *)
(* (backend command, file write) are separate steps that other handlers    *)
(* and a crash can interleave with, but they complete within the tick in   *)
(* which the handler started.                                              *)
(***************************************************************************)
EXTENDS Integers, Sequences, FiniteSets, Bags, TLC

\* ---------------------------------------------------------------- bounds
MaxReq == 2            \* requests ever submitted
MaxTime == 2           \* last tick of the clock
MaxDuration == 1       \* longest duration a request may ask for, in ticks
TokenExpiration == 1   \* config tokenExpiration, in ticks
MaxPending == 2        \* in-flight activations plus armed timers
MaxLen == 2            \* longest identity handed to a validation
MaxFileIds == 2        \* request ids the store calls work on
MaxCalls == 1          \* store calls each process makes

\* -------------------------------------------------------------- constants
NULL == -1
Username == <<"a", "l", "i", "c", "e">>   \* os.userInfo().username, as characters
validDurations == 1..MaxDuration
Actions == {"approve", "deny"}
NoToken == [requestId |-> 0, action |-> "none", expiresAt |-> NULL, hmac |-> <<>>]

VARIABLES
  now,          \* Date.now()
  up,           \* the main process is running
  store,        \* requests.json: sequence of request records
  tokens,       \* TokenManager.tokens: token string -> token data
  consumedLog,  \* tokens logged as "Token validated and consumed"
  elevated,     \* members of the admin group
  timers,       \* armed setTimeout callbacks of the main process (bag)
  tasks,        \* handlers suspended at an await (bag)
  restore,      \* position of restoreActivePrivileges
  reply,        \* last answer a handler gave: the presented token, if any, and the outcome
  osUser,       \* os.userInfo().username of the machine's account
  call,         \* last direct call of a PrivilegeHelper method and what it did
  fsys,         \* the files of the user data directory: name -> content
  lock,         \* requests.json.lock: "free", the caller holding it, or "orphan"
  procs,        \* the store call each process (main app, dashboard) is in
  created,      \* request ids already handed to saveRequest
  validation,   \* a call of validateRequestData: the form data and the errors collected
  trip,         \* one token of a TokenManager: issued as a string, then validated
  clients,      \* WebSocketServer.clients of the dashboard: client id -> connection
  shared,       \* the requests file the app instances and the dashboard share: id -> status
  sessions,     \* express-session store of the dashboard: session id -> session.authenticated
  served,       \* the last approve or deny request the dashboard's router answered
  env,          \* process.env of the main process, as ConfigManager.loadConfig reads it
  app,          \* the main process at startup: "loading", "window" (createWindow ran) or "quit"
  wsc           \* the WebSocketClient of the main process: its fields and its sockets

\* the files and store calls, stepped one file operation at a time
fileVars == <<fsys, lock, procs, created>>

\* the state the request lifecycle does not write
\* calls studied on their own
\* the dashboard's WebSocket server, its HTTP sessions and the storage behind them
wsVars == <<clients, shared, sessions, served>>

\* the configuration of the main process and how far its startup got
bootVars == <<env, app>>

soloVars == <<validation, trip, wsVars, bootVars, wsc>>

aside == <<osUser, call, fileVars, soloVars>>

vars == <<now, up, store, tokens, consumedLog, elevated, timers, tasks, restore, reply, aside>>

Ids == 1..MaxReq

\* ------------------------------------------------------- identity validation
\* the letters of Username and one character of each class the patterns tell apart
AllowedChars == {"a", "l", "i", "c", "e", "Z", "7", "_", "-"}
Chars == AllowedChars \cup {".", ";", " ", "\n"}

\* JavaScript values a caller can pass as a username
JsString(chars) == [type |-> "string", chars |-> chars]
JsOther(type) == [type |-> type, chars |-> <<>>]
Strings == UNION { [1..n -> Chars] : n \in 0..MaxLen }
JsValues == { JsString(c) : c \in Strings } \cup { JsOther(t) : t \in {"undefined", "number", "object"} }

\* !username : undefined and the empty string are falsy
Falsy(v) == v.type = "undefined" \/ (v.type = "string" /\ v.chars = <<>>)

\* /^[a-zA-Z0-9_-]+$/ with the end anchor dropped
PatternTest_Unanchored(chars) == Len(chars) >= 1 /\ chars[1] \in AllowedChars

\* /^[a-zA-Z0-9_-]+$/.test(username)
PatternTest(chars) == Len(chars) >= 1 /\ \A i \in 1..Len(chars) : chars[i] \in AllowedChars

\* PrivilegeHelper.validateUsername: which error it throws, or "ok"
HelperValidateUsername(v) ==
  IF Falsy(v) \/ v.type # "string" THEN "NotAString"
  ELSE IF ~PatternTest(v.chars) THEN "BadFormat"
  ELSE "ok"

\* the helper reaches sudoPrompt.exec only past its own validation
HelperRuns(v) == HelperValidateUsername(v) = "ok"

\* ------------------------------------------------------ validateRequestData
\* Form texts are kept as runs of one character, so that a text longer than the
\* limits stays small: <<[c |-> "a", n |-> 100], [c |-> "<", n |-> 1]>> is 100
\* letters and a "<".
NameMaxLength == 100
ReasonMaxLength == 1000
MaxRuns == 2              \* runs a form text is made of
MaxClients == 2           \* connections the WebSocket server holds at a time
MaxSessions == 2          \* browser sessions the dashboard holds
MaxSockets == 2           \* sockets the client has dropped whose "close" event is still to come
ReconnectInterval == 1    \* this.reconnectInterval, in ticks

JsText(runs) == [type |-> "string", runs |-> runs]
Texts(chars, counts) == UNION { [1..k -> [c : chars, n : counts]] : k \in 0..MaxRuns }
NoText == { JsOther(t) : t \in {"undefined", "number", "object"} }

\* text.length
RECURSIVE RunLength(_)
RunLength(runs) ==
  IF runs = <<>> THEN 0 ELSE Head(runs).n + RunLength(Tail(runs))

\* text.trim()
RECURSIVE TrimStart(_)
TrimStart(runs) ==
  IF runs # <<>> /\ Head(runs).c = " " THEN TrimStart(Tail(runs)) ELSE runs

RECURSIVE TrimEnd(_)
TrimEnd(runs) ==
  IF runs # <<>> /\ runs[Len(runs)].c = " "
  THEN TrimEnd(SubSeq(runs, 1, Len(runs) - 1))
  ELSE runs

Trim(runs) == TrimEnd(TrimStart(runs))

\* /^[a-zA-Z0-9\s\-'.,]+$/.test(fullName)
NameChars == {"a", " ", "'"}
NamePatternTest(runs) == runs # <<>> /\ \A i \in 1..Len(runs) : runs[i].c \in NameChars

\* !value || typeof value !== "string"
Missing(v) == v.type # "string" \/ RunLength(v.runs) = 0

\* the fullName block of validateRequestData: the messages it pushes
FullNameErrors(v) ==
  IF Missing(v) THEN <<"Full name is required">>
  ELSE LET fullName == Trim(v.runs) IN
       IF RunLength(fullName) = 0 THEN <<"Full name cannot be empty">>
       ELSE IF RunLength(fullName) > NameMaxLength
       THEN <<"Full name must be less than 100 characters">>
       ELSE IF ~NamePatternTest(fullName) THEN <<"Full name contains invalid characters">>
       ELSE <<>>

\* parseInt(value, 10) of a string: leading blanks are skipped and the longest
\* prefix of digits is read; NULL stands for NaN
DecimalDigits == <<"0", "1", "2", "3", "4", "5", "6", "7", "8", "9">>
IsDigit(c) == \E d \in 1..10 : DecimalDigits[d] = c
DigitValue(c) == (CHOOSE d \in 1..10 : DecimalDigits[d] = c) - 1

RECURSIVE DigitsPrefix(_, _)
DigitsPrefix(chars, acc) ==
  IF chars # <<>> /\ IsDigit(Head(chars))
  THEN DigitsPrefix(Tail(chars), 10 * acc + DigitValue(Head(chars)))
  ELSE acc

RECURSIVE SkipBlanks(_)
SkipBlanks(chars) ==
  IF chars # <<>> /\ Head(chars) = " " THEN SkipBlanks(Tail(chars)) ELSE chars

ParseInt(v) ==
  IF v.type = "number" THEN v.n
  ELSE IF v.type # "string" THEN NULL
  ELSE LET rest == SkipBlanks(v.chars) IN
       IF rest = <<>> \/ ~IsDigit(Head(rest)) THEN NULL
       ELSE DigitsPrefix(rest, 0)

\* the duration block
DurationErrors(v) ==
  LET duration == ParseInt(v) IN
  IF duration = NULL \/ duration \notin validDurations
  THEN <<"Invalid duration selected">>
  ELSE <<>>

\* the reason block
ReasonErrors(v) ==
  IF Missing(v) THEN <<"Reason is required">>
  ELSE LET reason == Trim(v.runs) IN
       IF RunLength(reason) = 0 THEN <<"Reason cannot be empty">>
       ELSE IF RunLength(reason) > ReasonMaxLength
       THEN <<"Reason must be less than 1000 characters">>
       ELSE <<>>

\* validateRequestData, had it thrown at the first invalid field
ValidateRequestData_FirstField(requestData) ==
  IF FullNameErrors(requestData.fullName) # <<>> THEN FullNameErrors(requestData.fullName)
  ELSE IF DurationErrors(requestData.duration) # <<>> THEN DurationErrors(requestData.duration)
  ELSE ReasonErrors(requestData.reason)

\* validateRequestData(requestData): the errors array; it throws
\* new Error(errors.join("; ")) when the array is not empty
ValidateRequestData(requestData) ==
  FullNameErrors(requestData.fullName) \o DurationErrors(requestData.duration)
    \o ReasonErrors(requestData.reason)

\* form data a renderer can send
JsNumber(n) == [type |-> "number", chars |-> <<>>, n |-> n]
FullNames == { JsText(r) : r \in Texts({"a", " ", "<"}, {1, NameMaxLength}) } \cup NoText
Reasons == { JsText(r) : r \in Texts({"a", " "}, {1, ReasonMaxLength}) } \cup NoText
Durations ==
  { JsNumber(n) : n \in {0, 1} } \cup
  { JsString(c) : c \in {<<"1">>, <<"0", "1">>, <<" ", "1">>, <<"1", "x">>, <<"1", "0">>,
                          <<"x", "1">>, <<>>} } \cup
  { JsOther("undefined") }
Forms == [fullName : FullNames, duration : Durations, reason : Reasons]

NoForm == [fullName |-> JsOther("undefined"), duration |-> JsOther("undefined"),
           reason |-> JsOther("undefined")]
NoValidation == [data |-> NoForm, done |-> FALSE, errors |-> <<>>]


\* ------------------------------------------------------------ token strings
\* crypto.createHmac("sha256", secret).update(payload).digest("hex")
Hmac(secret, requestId, action, expiresAt) == <<secret, requestId, action, expiresAt>>

TokenSecret == "secret"

\* the token string, had the payload been `${requestId}:${expiresAt}`
TokenString_NoAction(requestId, action, expiresAt) ==
  [requestId |-> requestId, action |-> "approve", expiresAt |-> expiresAt,
   hmac |-> Hmac(TokenSecret, requestId, "approve", expiresAt)]

\* payload = `${requestId}:${action}:${expiresAt}`;
\* Buffer.from(`${payload}:${hmac}`).toString("base64url")
TokenString(requestId, action, expiresAt) ==
  [requestId |-> requestId, action |-> action, expiresAt |-> expiresAt,
   hmac |-> Hmac(TokenSecret, requestId, action, expiresAt)]

\* the token strings handed out for the requests of the store
IssuedTokens ==
  { TokenString(i, a, store[i].timestamp + TokenExpiration) :
      i \in 1..Len(store), a \in Actions }

MapRemove(f, k) == [x \in DOMAIN f \ {k} |-> f[x]]

\* validateSecureToken with the expiry branch left out
ValidateOutcome_NoExpiry(t) ==
  IF t = NoToken THEN "required"
  ELSE IF t \notin DOMAIN tokens THEN "invalid"
  ELSE IF tokens[t].used THEN "used"
  ELSE IF t.hmac # Hmac(TokenSecret, t.requestId, t.action, t.expiresAt) THEN "signature"
  ELSE IF \/ t.requestId # tokens[t].requestId
          \/ t.action # tokens[t].action
          \/ t.expiresAt # tokens[t].expiresAt THEN "mismatch"
  ELSE "ok"

\* validateSecureToken with the expiry branch ahead of the used branch
ValidateOutcome_ExpiryFirst(t) ==
  IF t = NoToken THEN "required"
  ELSE IF t \notin DOMAIN tokens THEN "invalid"
  ELSE IF now > tokens[t].expiresAt THEN "expired"
  ELSE IF tokens[t].used THEN "used"
  ELSE IF t.hmac # Hmac(TokenSecret, t.requestId, t.action, t.expiresAt) THEN "signature"
  ELSE IF \/ t.requestId # tokens[t].requestId
          \/ t.action # tokens[t].action
          \/ t.expiresAt # tokens[t].expiresAt THEN "mismatch"
  ELSE "ok"

\* validateSecureToken trusting the signature of a string it holds no entry for
ValidateOutcome_NoLookup(t) ==
  IF t = NoToken THEN "required"
  ELSE IF t \in DOMAIN tokens /\ tokens[t].used THEN "used"
  ELSE IF t \in DOMAIN tokens /\ now > tokens[t].expiresAt THEN "expired"
  ELSE IF t.hmac # Hmac(TokenSecret, t.requestId, t.action, t.expiresAt) THEN "signature"
  ELSE IF t \in DOMAIN tokens /\ (\/ t.requestId # tokens[t].requestId
                                  \/ t.action # tokens[t].action
                                  \/ t.expiresAt # tokens[t].expiresAt) THEN "mismatch"
  ELSE "ok"

\* which branch of validateSecureToken a presented token takes
ValidateOutcome(t) ==
  IF t = NoToken THEN "required"
  ELSE IF t \notin DOMAIN tokens THEN "invalid"
  ELSE IF tokens[t].used THEN "used"
  ELSE IF now > tokens[t].expiresAt THEN "expired"
  ELSE IF t.hmac # Hmac(TokenSecret, t.requestId, t.action, t.expiresAt) THEN "signature"
  ELSE IF \/ t.requestId # tokens[t].requestId
          \/ t.action # tokens[t].action
          \/ t.expiresAt # tokens[t].expiresAt THEN "mismatch"
  ELSE "ok"

\* validateSecureToken without tokenData.used = true
TokensAfterValidate_NotMarked(t) ==
  IF ValidateOutcome(t) \in {"expired", "signature", "mismatch"}
  THEN MapRemove(tokens, t)
  ELSE tokens

\* the token map after validateSecureToken(t)
TokensAfterValidate(t) ==
  LET out == ValidateOutcome(t) IN
  IF out = "ok" THEN [tokens EXCEPT ![t].used = TRUE]
  ELSE IF out \in {"expired", "signature", "mismatch"} THEN MapRemove(tokens, t)
  ELSE tokens

\* ---------------------------------------------------------------- the store
\* the file after updateRequestStatus(requestId, status, expiresAt) wrote it
UpdatedStore(requestId, status, expiresAt) ==
  IF requestId \in 1..Len(store)
  THEN [store EXCEPT ![requestId] =
          [@ EXCEPT !.status = status,
                    !.expiresAt = IF expiresAt # NULL THEN expiresAt ELSE @]]
  ELSE store

Reply(t, out) == [tok |-> t, out |-> out]

InFlight == BagCardinality(tasks) > 0 \/ restore.pc \in {"load", "revoke", "persist", "persistUnrevoked"}

\* ------------------------------------------- token strings, character by character
\* The text of a token before base64url is `${payload}:${hmac}`. It is kept as
\* the characters of the payload and the hmac over them; the hex digest has no
\* ":" in it, so it is always the last field of a split.
TextField(text) == [text |-> text, key |-> "", over |-> <<>>]
MacField(key, payload) == [text |-> <<"hex">>, key |-> key, over |-> payload]

\* String(n) of a non-negative integer
RECURSIVE ToDecimal(_)
ToDecimal(n) ==
  IF n < 10 THEN <<DecimalDigits[n + 1]>>
  ELSE ToDecimal(n \div 10) \o <<DecimalDigits[(n % 10) + 1]>>

\* `${requestId}:${action}:${expiresAt}`
Payload(requestId, action, expiresAt) == requestId \o <<":">> \o action \o <<":">> \o expiresAt

\* Buffer.from(text).toString("base64url") and Buffer.from(token, "base64url").toString("utf-8")
Base64Url(decoded) == [base64url |-> decoded]
FromBase64Url(token) == token.base64url

\* generateSecureToken(requestId, action) at time t: the token string and the
\* metadata stored under it
GenerateSecureToken(requestId, action, t) ==
  LET expiresAt == t + TokenExpiration
      payload == Payload(requestId, <<action>>, ToDecimal(expiresAt))
  IN [token |-> Base64Url([text |-> payload, mac |-> MacField(TokenSecret, payload)]),
      data |-> [requestId |-> requestId, action |-> action, expiresAt |-> expiresAt,
                used |-> FALSE]]

\* text.split(":")
RECURSIVE Split(_)
Split(text) ==
  IF \A k \in 1..Len(text) : text[k] # ":" THEN <<text>>
  ELSE LET k == CHOOSE j \in 1..Len(text) :
                   text[j] = ":" /\ \A h \in 1..(j - 1) : text[h] # ":"
       IN <<SubSeq(text, 1, k - 1)>> \o Split(SubSeq(text, k + 1, Len(text)))

\* decoded.split(":") for a decoded text and its trailing hmac
SplitFields(decoded) ==
  [k \in 1..Len(Split(decoded.text)) |-> TextField(Split(decoded.text)[k])]
    \o <<decoded.mac>>

\* const [requestId, action, expiresAt, receivedHmac] = decoded.split(":")
Destructured(fields, k) == IF k <= Len(fields) THEN fields[k] ELSE TextField(<<"undefined">>)

\* the signature and data checks of validateSecureToken
SignatureOutcome(token, tokenData) ==
  LET fields == SplitFields(FromBase64Url(token))
      requestId == Destructured(fields, 1)
      action == Destructured(fields, 2)
      expiresAt == Destructured(fields, 3)
      receivedHmac == Destructured(fields, 4)
      payload == Payload(requestId.text, action.text, expiresAt.text)
  IN IF receivedHmac # MacField(TokenSecret, payload) THEN "signature"
     ELSE IF \/ requestId.text # tokenData.requestId
             \/ action.text # <<tokenData.action>>
             \/ ParseInt(JsString(expiresAt.text)) # tokenData.expiresAt THEN "mismatch"
     ELSE "ok"

\* validateSecureToken(token) at time t for a token found in the map
ValidateSecureToken(token, tokenData, t) ==
  IF tokenData.used THEN "used"
  ELSE IF t > tokenData.expiresAt THEN "expired"
  ELSE SignatureOutcome(token, tokenData)

\* request ids a caller can pass: non-empty strings
IdChars == {"a", "7", ":"}
RequestIds == UNION { [1..n -> IdChars] : n \in 1..MaxLen }

NoTokenData == [requestId |-> <<>>, action |-> "none", expiresAt |-> NULL, used |-> FALSE]
NoTrip == [pc |-> "none", requestId |-> <<>>, action |-> "none",
           token |-> Base64Url([text |-> <<>>, mac |-> TextField(<<>>)]),
           data |-> NoTokenData, out |-> "none",
           result |-> [requestId |-> <<>>, action |-> "none"]]

\* ------------------------------------------------ WebSocket connections
ClientIds == 1..MaxClients
WsRequestIds == 1..MaxReq
WsKinds == {"app", "admin"}

\* a message as the receiving side reads it: its type and data.requestId (0 without one)
Msg(type, requestId) == [type |-> type, requestId |-> requestId]

\* a client id that is not in the Map
NoWs == [kind |-> "none", isAuthenticated |-> FALSE, sent |-> {}, received |-> {}]

SessionIds == 1..MaxSessions

\* no approve or deny request answered yet
NoServed == [session |-> 0, out |-> "none"]

HttpInit ==
  /\ sessions = [s \in SessionIds |-> FALSE]
  /\ served = NoServed

WsInit ==
  /\ clients = [c \in ClientIds |-> NoWs]
  /\ shared = [r \in WsRequestIds |-> "none"]
  /\ HttpInit

\* ------------------------------------------------- configuration at startup
TokenSecretMinLength == 32

\* TOKEN_SECRET by its length: NULL when the variable is not set
SecretLengths == {NULL, 0, TokenSecretMinLength - 1, TokenSecretMinLength}

\* TOKEN_EXPIRATION_MINUTES
ExpirationTexts == {JsOther("undefined"), JsString(<<"1">>), JsString(<<"x">>)}

\* process.env: the SMTP variables by whether they are set, SMTP_PORT by whether
\* it parses as a number, ADMIN_EMAIL by whether it matches the e-mail pattern
Envs == [smtpHost : BOOLEAN, smtpUser : BOOLEAN, smtpPass : BOOLEAN,
         smtpPort : BOOLEAN, adminEmail : BOOLEAN,
         tokenSecret : SecretLengths, tokenExpirationMinutes : ExpirationTexts]

\* ConfigManager.loadConfig: tokenExpiration is
\* parseInt(process.env.TOKEN_EXPIRATION_MINUTES || "15", 10) * 60 * 1000, counted
\* in ticks here, with the default as TokenExpiration; NULL stands for NaN
LoadConfig(e) ==
  [smtpHost |-> e.smtpHost, smtpUser |-> e.smtpUser, smtpPass |-> e.smtpPass,
   smtpPort |-> e.smtpPort, adminEmail |-> e.adminEmail,
   tokenSecret |-> e.tokenSecret,
   tokenExpiration |-> IF Falsy(e.tokenExpirationMinutes) THEN TokenExpiration
                       ELSE ParseInt(e.tokenExpirationMinutes)]

\* !secret : undefined and the empty string
NoSecret(secret) == secret = NULL \/ secret = 0

\* ConfigManager.validate(): the errors it collects
ConfigValidate(cfg) ==
  (IF ~cfg.smtpHost THEN {"SMTP_HOST is required"} ELSE {}) \cup
  (IF ~cfg.smtpUser THEN {"SMTP_USER is required"} ELSE {}) \cup
  (IF ~cfg.smtpPass THEN {"SMTP_PASS is required"} ELSE {}) \cup
  (IF ~cfg.smtpPort THEN {"SMTP_PORT must be a number"} ELSE {}) \cup
  (IF ~cfg.adminEmail THEN {"ADMIN_EMAIL must be a valid email address"} ELSE {}) \cup
  (IF NoSecret(cfg.tokenSecret) THEN {"TOKEN_SECRET is required for secure token generation"}
   ELSE IF cfg.tokenSecret < TokenSecretMinLength
   THEN {"TOKEN_SECRET must be at least 32 characters long"}
   ELSE {})

\* validateEnvironment(): the errors it collects
ValidateEnvironment(e) ==
  (IF ~(e.smtpHost /\ e.smtpUser /\ e.smtpPass)
   THEN {"Missing required environment variables"} ELSE {}) \cup
  (IF ~e.smtpPort THEN {"SMTP_PORT must be a number"} ELSE {}) \cup
  (IF ~e.adminEmail THEN {"ADMIN_EMAIL must be a valid email address"} ELSE {}) \cup
  (IF ~NoSecret(e.tokenSecret) /\ e.tokenSecret < TokenSecretMinLength
   THEN {"TOKEN_SECRET must be at least 32 characters long"} ELSE {})

\* a startup that looks at the SMTP variables only
StartupErrors_SmtpOnly(e) ==
  IF ~(e.smtpHost /\ e.smtpUser /\ e.smtpPass)
  THEN {"Missing required environment variables"} ELSE {}

\* app.whenReady: config.validate(), then validateEnvironment(); any error is
\* caught, shown, and followed by app.quit() and return
StartupErrors(e) == ConfigValidate(LoadConfig(e)) \cup ValidateEnvironment(e)

\* generateSecureToken(requestId, action) under configuration cfg: the error it
\* throws, or "ok". new Date(expiresAt).toISOString() throws a RangeError for NaN.
GenerateOutcome(cfg) ==
  IF NoSecret(cfg.tokenSecret) THEN "TokenError"
  ELSE IF cfg.tokenExpiration = NULL THEN "RangeError"
  ELSE "ok"

\* an environment the startup accepts, with the defaults
RunningEnv ==
  [smtpHost |-> TRUE, smtpUser |-> TRUE, smtpPass |-> TRUE, smtpPort |-> TRUE,
   adminEmail |-> TRUE, tokenSecret |-> TokenSecretMinLength,
   tokenExpirationMinutes |-> JsOther("undefined")]

\* the main process is up with its window
BootDone == env = RunningEnv /\ app = "window"

\* new WebSocketClient(): this.ws = null, this.reconnectTimer = null,
\* this.isConnecting = false
NoLink == [ws |-> "null", isConnecting |-> FALSE, reconnectTimer |-> NULL,
           dropped |-> 0, disconnected |-> FALSE]

SoloInit == validation = NoValidation /\ trip = NoTrip /\ WsInit /\ BootDone /\ wsc = NoLink

\* ------------------------------------------------------------------- Init
\* ------------------------------------------------------ the requests file
RequestsFile == "requests.json"

\* const tempFile = requestsFile + ".tmp", had it been the file itself
TempFile_InPlace(requestsFile) == requestsFile

\* const tempFile = requestsFile + ".tmp"
TempFile(requestsFile) == "requests.json.tmp"

FileNames == {RequestsFile, TempFile(RequestsFile)}
FileIds == 1..MaxFileIds
Procs == {"app", "dash"}

\* a snapshot: the status of each request id it holds
EmptyReqs == [i \in FileIds |-> "absent"]

\* file contents: the JSON text of a snapshot, whole or cut short
NoFile == [exists |-> FALSE, reqs |-> EmptyReqs, whole |-> FALSE]
Text(reqs, whole) == [exists |-> TRUE, reqs |-> reqs, whole |-> whole]

\* JSON.parse(await fs.readFile(file)), with the catch that leaves requests = []
ParseOr(file, fallback) ==
  IF fsys[file].exists /\ fsys[file].whole THEN fsys[file].reqs ELSE fallback

IdleProc == [pc |-> "idle", op |-> "none", id |-> 0, local |-> EmptyReqs, calls |-> 0,
             result |-> "none", got |-> EmptyReqs]

NoCall == [fn |-> "none", username |-> JsOther("undefined"), ran |-> FALSE, out |-> "none"]

FileInit ==
  /\ fsys = [f \in FileNames |-> IF f = RequestsFile THEN Text(EmptyReqs, TRUE) ELSE NoFile]
  /\ lock = "free"
  /\ procs = [p \in Procs |-> IdleProc]
  /\ created = {}

\* a machine on which requests.json does not exist yet
FreshFileInit ==
  /\ fsys = [f \in FileNames |-> NoFile]
  /\ lock = "free"
  /\ procs = [p \in Procs |-> IdleProc]
  /\ created = {}

LifeInit ==
  /\ now = 0
  /\ up = TRUE
  /\ store = <<>>
  /\ tokens = <<>>
  /\ consumedLog = {}
  /\ elevated = {}
  /\ timers = EmptyBag
  /\ tasks = EmptyBag
  /\ restore = [pc |-> "done", snap |-> <<>>, i |-> 0, now0 |-> 0]
  /\ reply = Reply(NoToken, "none")

Init ==
  /\ osUser = Username
  /\ call = NoCall
  /\ SoloInit
  /\ FileInit
  /\ LifeInit

\* the clock advances between handlers
Tick ==
  /\ now < MaxTime
  /\ ~InFlight
  /\ now' = now + 1
  /\ UNCHANGED <<up, store, tokens, consumedLog, elevated, timers, tasks, restore, reply>>
  /\ UNCHANGED aside

\* ------------------------------------------------- request-privileges (submit)
\* saveRequest, then generateSecureToken twice; storeOk = FALSE: the lock or the
\* write fails and the handler throws before any token is generated
RequestPrivileges(duration, storeOk) ==
  /\ up
  /\ Len(store) < MaxReq
  /\ duration \in validDurations
  /\ IF storeOk
     THEN LET id == Len(store) + 1
              exp == now + TokenExpiration
              data(a) == [requestId |-> id, action |-> a, expiresAt |-> exp, used |-> FALSE]
          IN /\ store' = Append(store, [username |-> osUser, duration |-> duration,
                                         timestamp |-> now, status |-> "pending",
                                         expiresAt |-> NULL, activatedAt |-> NULL])
             /\ tokens' = (TokenString(id, "approve", exp) :> data("approve")) @@
                          (TokenString(id, "deny", exp) :> data("deny")) @@ tokens
     ELSE UNCHANGED <<store, tokens>>
  /\ UNCHANGED <<now, up, consumedLog, elevated, timers, tasks, restore, reply>>
  /\ UNCHANGED aside

\* --------------------------------------------------- decisions (three channels)
StatusFor(action) == IF action = "approve" THEN "approved" ELSE "denied"

\* what a decision handler answers once updateRequestStatus settled
DecideOutcome(requestId, storeOk) == IF storeOk THEN "ok" ELSE "StoreError"

\* ApprovalServer GET /approve?token=...
ApproveLink(t, storeOk) ==
  /\ up
  /\ LET out == ValidateOutcome(t) IN
     /\ tokens' = TokensAfterValidate(t)
     /\ consumedLog' = IF out = "ok" THEN consumedLog \cup {t} ELSE consumedLog
     /\ IF out # "ok"
        THEN /\ reply' = Reply(t, out)
             /\ UNCHANGED store
        ELSE /\ reply' = Reply(t, DecideOutcome(tokens[t].requestId, storeOk))
             /\ store' = IF storeOk
                         THEN UpdatedStore(tokens[t].requestId, StatusFor(tokens[t].action), NULL)
                         ELSE store
  /\ UNCHANGED <<now, up, elevated, timers, tasks, restore>>
  /\ UNCHANGED aside

\* AdminDashboard POST /requests/:requestId/approve and /deny
DashboardDecide(requestId, action, storeOk) ==
  /\ store' = IF storeOk THEN UpdatedStore(requestId, StatusFor(action), NULL) ELSE store
  /\ UNCHANGED <<now, up, tokens, consumedLog, elevated, timers, tasks, restore, reply>>
  /\ UNCHANGED aside

\* WebSocketServer.handleApproveRequest / handleDenyRequest without a token
WsDecide(requestId, action, storeOk) ==
  /\ store' = IF storeOk THEN UpdatedStore(requestId, StatusFor(action), NULL) ELSE store
  /\ UNCHANGED <<now, up, tokens, consumedLog, elevated, timers, tasks, restore, reply>>
  /\ UNCHANGED aside

\* WebSocketServer.handleApproveRequest / handleDenyRequest with a token
WsDecideToken(requestId, action, t, storeOk) ==
  /\ up
  /\ LET out == ValidateOutcome(t) IN
     /\ tokens' = TokensAfterValidate(t)
     /\ consumedLog' = IF out = "ok" THEN consumedLog \cup {t} ELSE consumedLog
     /\ IF out # "ok"
        THEN /\ reply' = Reply(t, out)
             /\ UNCHANGED store
        ELSE IF tokens[t].requestId # requestId
        THEN /\ reply' = Reply(t, "idMismatch")
             /\ UNCHANGED store
        ELSE /\ reply' = Reply(t, DecideOutcome(requestId, storeOk))
             /\ store' = IF storeOk
                         THEN UpdatedStore(requestId, StatusFor(action), NULL)
                         ELSE store
  /\ UNCHANGED <<now, up, elevated, timers, tasks, restore>>
  /\ UNCHANGED aside

\* TokenManager.cleanupExpiredTokens, run by the 5-minute interval
CleanupExpiredTokens ==
  /\ up
  /\ \E t \in DOMAIN tokens : now > tokens[t].expiresAt
  /\ tokens' = [t \in {x \in DOMAIN tokens : ~(now > tokens[x].expiresAt)} |-> tokens[t]]
  /\ UNCHANGED <<now, up, store, consumedLog, elevated, timers, tasks, restore, reply>>
  /\ UNCHANGED aside

\* --------------------------------------------------- grant-privileges (activate)
Task(kind, id, user, duration, pc, revoked) ==
  [kind |-> kind, id |-> id, user |-> user, duration |-> duration, pc |-> pc,
   revoked |-> revoked]   \* an "expire" task's pc names the timer it runs for

Timer(kind, id, user, fireAt, exp) ==
  [kind |-> kind, id |-> id, user |-> user, fireAt |-> fireAt, exp |-> exp]

One(x) == SetToBag({x})

\* a status check that also lets a pending request through
ActivateOutcome_PendingToo(requestId) ==
  IF requestId \in 1..Len(store) /\ store[requestId].status \in {"approved", "pending"}
  THEN "granting"
  ELSE "NotApproved"

\* the check after loadRequests: the handler goes on to the backend, or throws
ActivateOutcome(requestId) ==
  IF requestId \in 1..Len(store) /\ store[requestId].status = "approved"
  THEN "granting"
  ELSE "NotApproved"

\* loadRequests, find, and the status check; the handler then awaits the backend
ActivateStartStep(requestId) ==
  /\ up
  /\ IF ActivateOutcome(requestId) = "granting"
     THEN /\ now + store[requestId].duration <= MaxTime
          /\ BagCardinality(tasks) + BagCardinality(timers) < MaxPending
          /\ tasks' = tasks (+) One(Task("activate", requestId, store[requestId].username,
                                          store[requestId].duration, "grant", FALSE))
     ELSE UNCHANGED tasks
  /\ UNCHANGED <<now, up, store, tokens, consumedLog, elevated, timers, restore>>
  /\ UNCHANGED aside

\* the step with the handler's answer left unobserved
ActivateStart(requestId) == ActivateStartStep(requestId) /\ UNCHANGED reply

\* the step with the answer of the ipc call: the thrown
\* "Request not found or not approved", or nothing yet
ActivateStartAnswered(requestId) ==
  /\ ActivateStartStep(requestId)
  /\ reply' = IF ActivateOutcome(requestId) = "granting" THEN reply
              ELSE Reply(NoToken, "NotApproved")

\* await helper.addUserToAdminGroup(request.username) settles
\* a handler that swallows the backend error and carries on
Granted_Swallowed(t, ok) == TRUE

\* await helper.addUserToAdminGroup(request.username) resolved
Granted(t, ok) == ok /\ HelperRuns(JsString(t.user))

ActivateGrantStep(t, ok) ==
  /\ up
  /\ BagIn(t, tasks) /\ t.kind = "activate" /\ t.pc = "grant"
  /\ IF Granted(t, ok)
     THEN /\ elevated' = elevated \cup {t.user}
          /\ tasks' = (tasks (-) One(t)) (+) One([t EXCEPT !.pc = "persist"])
     ELSE /\ tasks' = tasks (-) One(t)
          /\ UNCHANGED elevated
  /\ UNCHANGED <<now, up, store, tokens, consumedLog, timers, restore>>
  /\ UNCHANGED aside

ActivateGrant(t, ok) == ActivateGrantStep(t, ok) /\ UNCHANGED reply

\* a rejected addUserToAdminGroup is rethrown to the caller
ActivateGrantAnswered(t, ok) ==
  /\ ActivateGrantStep(t, ok)
  /\ reply' = IF Granted(t, ok) THEN reply ELSE Reply(NoToken, "BackendError")

\* updateRequestStatus(requestId, "active", expiresAt), then setTimeout(durationMs);
\* request.activatedAt is assigned on the object loadRequests returned to the
\* handler, and updateRequestStatus re-reads the file and writes status and
\* expiresAt only
ActivatePersistStep(t, storeOk) ==
  /\ up
  /\ BagIn(t, tasks) /\ t.kind = "activate" /\ t.pc = "persist"
  /\ tasks' = tasks (-) One(t)
  /\ LET expiresAt == now + t.duration IN
     IF storeOk
     THEN /\ store' = UpdatedStore(t.id, "active", expiresAt)
          /\ timers' = timers (+) One(Timer("grant", t.id, t.user, now + t.duration, expiresAt))
     ELSE UNCHANGED <<store, timers>>
  /\ UNCHANGED <<now, up, tokens, consumedLog, elevated, restore>>
  /\ UNCHANGED aside

ActivatePersist(t, storeOk) == ActivatePersistStep(t, storeOk) /\ UNCHANGED reply

\* return { success: true, expiresAt }, or the rethrown store error
ActivatePersistAnswered(t, storeOk) ==
  /\ ActivatePersistStep(t, storeOk)
  /\ reply' = Reply(NoToken, IF storeOk THEN "granted" ELSE "StoreError")

\* ------------------------------------------------------- expiry timer callbacks
\* a callback that goes on to updateRequestStatus whatever the revoke did
ContinuesAfterRevoke_Always(ok) == TRUE

\* the callback reaches updateRequestStatus only when the awaited
\* removeUserFromAdminGroup resolved
ContinuesAfterRevoke(ok) == ok

\* a due timer fires: await helper.removeUserFromAdminGroup(request.username)
FireTimer(t, ok) ==
  /\ up
  /\ BagIn(t, timers)
  /\ now >= t.fireAt
  /\ timers' = timers (-) One(t)
  /\ LET revoked == ok /\ HelperRuns(JsString(t.user)) IN
     /\ elevated' = IF revoked THEN elevated \ {t.user} ELSE elevated
     /\ tasks' = IF ContinuesAfterRevoke(revoked)
                 THEN tasks (+) One(Task("expire", t.id, t.user, 0, t.kind, revoked))
                 ELSE tasks
  /\ UNCHANGED <<now, up, store, tokens, consumedLog, restore, reply>>
  /\ UNCHANGED aside

\* await updateRequestStatus(request.id, "expired") in a timer callback
ExpirePersist(t, storeOk) ==
  /\ up
  /\ BagIn(t, tasks) /\ t.kind = "expire"
  /\ tasks' = tasks (-) One(t)
  /\ store' = IF storeOk THEN UpdatedStore(t.id, "expired", NULL) ELSE store
  /\ UNCHANGED <<now, up, tokens, consumedLog, elevated, timers, restore, reply>>
  /\ UNCHANGED aside

\* ------------------------------------------------- crash, restart and recovery
Idle == [pc |-> "idle", snap |-> <<>>, i |-> 0, now0 |-> 0]
Done == [pc |-> "done", snap |-> <<>>, i |-> 0, now0 |-> 0]

\* a process whose token map outlives it
Crash_TokensKept ==
  /\ up
  /\ up' = FALSE
  /\ timers' = EmptyBag
  /\ tasks' = EmptyBag
  /\ tokens' = tokens
  /\ restore' = Idle
  /\ UNCHANGED <<now, store, consumedLog, elevated, reply>>
  /\ UNCHANGED aside

\* the process dies: timers, suspended handlers and the token map are lost
Crash ==
  /\ up
  /\ up' = FALSE
  /\ timers' = EmptyBag
  /\ tasks' = EmptyBag
  /\ tokens' = <<>>
  /\ restore' = Idle
  /\ UNCHANGED <<now, store, consumedLog, elevated, reply>>
  /\ UNCHANGED aside

\* app.whenReady: createWindow(), connectToDashboard(), then
\* restoreActivePrivileges() starts and awaits loadRequests(); the ipc handlers
\* are registered at module load
Restart ==
  /\ ~up
  /\ up' = TRUE
  /\ restore' = [Idle EXCEPT !.pc = "load"]
  /\ UNCHANGED <<now, store, tokens, consumedLog, elevated, timers, tasks, reply>>
  /\ UNCHANGED aside

\* a remaining time that is one tick short
Remaining_Short(expiresAt, now0) == expiresAt - now0 - 1

\* const remaining = expiresAt - now
Remaining(expiresAt, now0) == expiresAt - now0

IsActive(request) == request.status = "active" /\ request.expiresAt # NULL

\* the loop of restoreActivePrivileges from entry i on runs without suspending
\* until the first active request that is already expired
FirstExpired(snap, i, now0) ==
  LET past == { j \in i..Len(snap) :
                  IsActive(snap[j]) /\ ~(Remaining(snap[j].expiresAt, now0) > 0) }
  IN IF past = {} THEN Len(snap) + 1
     ELSE CHOOSE j \in past : \A k \in past : j <= k

\* the timers that stretch of the loop arms
RestoredTimers(snap, i, j, now0) ==
  SetToBag({ Timer("restore", k, snap[k].username,
                   now + Remaining(snap[k].expiresAt, now0), snap[k].expiresAt) :
             k \in { x \in i..(j - 1) :
                       IsActive(snap[x]) /\ Remaining(snap[x].expiresAt, now0) > 0 } })

\* run the loop from entry i to its next await, or to its end
RestoreFrom(snap, i, now0) ==
  LET j == FirstExpired(snap, i, now0) IN
  /\ timers' = timers (+) RestoredTimers(snap, i, j, now0)
  /\ restore' = IF j > Len(snap) THEN Done
                ELSE [pc |-> "revoke", snap |-> snap, i |-> j, now0 |-> now0]

\* a failure at entry i that reaches the catch around the whole pass
CaughtInLoop_Outer(snap, i, now0) == restore' = Done /\ UNCHANGED timers

\* catch (error) { logger.error("Error removing expired privileges") } inside
\* the loop body: the for loop goes on with the next entry
CaughtInLoop(snap, i, now0) == RestoreFrom(snap, i + 1, now0)

\* await loadRequests() resolves; const now = Date.now()
RestoreLoad ==
  /\ up
  /\ restore.pc = "load"
  /\ RestoreFrom(store, 1, now)
  /\ UNCHANGED <<now, up, store, tokens, consumedLog, elevated, tasks, reply>>
  /\ UNCHANGED aside

\* "Already expired, remove immediately": await removeUserFromAdminGroup settles
RestoreRevoke(ok) ==
  /\ up
  /\ restore.pc = "revoke"
  /\ LET revoked == ok /\ HelperRuns(JsString(restore.snap[restore.i].username)) IN
     /\ elevated' = IF revoked THEN elevated \ {restore.snap[restore.i].username} ELSE elevated
     /\ IF ContinuesAfterRevoke(revoked)
        THEN /\ restore' = [restore EXCEPT !.pc = IF revoked THEN "persist" ELSE "persistUnrevoked"]
             /\ UNCHANGED timers
        ELSE CaughtInLoop(restore.snap, restore.i, restore.now0)
  /\ UNCHANGED <<now, up, store, tokens, consumedLog, tasks, reply>>
  /\ UNCHANGED aside

\* await updateRequestStatus(request.id, "expired") settles
RestorePersist(storeOk) ==
  /\ up
  /\ restore.pc \in {"persist", "persistUnrevoked"}
  /\ store' = IF storeOk THEN UpdatedStore(restore.i, "expired", NULL) ELSE store
  /\ IF storeOk THEN RestoreFrom(restore.snap, restore.i + 1, restore.now0)
     ELSE CaughtInLoop(restore.snap, restore.i, restore.now0)
  /\ UNCHANGED <<now, up, tokens, consumedLog, elevated, tasks, reply>>
  /\ UNCHANGED aside

\* ------------------------------------------- store calls, one file step each
\* the other variables of the model, which a store call leaves alone
lifeVars == <<now, up, store, tokens, consumedLog, elevated, timers, tasks, restore, reply,
              osUser, call, soloVars>>

Proc(p, pc) == [procs EXCEPT ![p].pc = pc]

\* a process starts saveRequest(id), updateRequestStatus(id, "approved") or
\* loadRequests(); ensureDirectory / fs.mkdir comes first
StoreCall(p, op, id) ==
  /\ procs[p].pc = "idle"
  /\ procs[p].calls < MaxCalls
  /\ op = "save" => id \notin created
  /\ op = "load" => id = 0
  /\ created' = IF op = "save" THEN created \cup {id} ELSE created
  /\ procs' = [procs EXCEPT ![p] = [@ EXCEPT !.pc = IF op = "load" THEN "rlock" ELSE "lock",
                                             !.op = op, !.id = id, !.calls = @ + 1,
                                             !.result = "none", !.local = EmptyReqs]]
  /\ UNCHANGED <<fsys, lock, lifeVars>>

\* lockfile.lock(requestsFile, {retries}) settles: the lock directory is made,
\* or the file to lock does not exist (ENOENT), or the retries ran out while
\* the lock was held (ELOCKED)
LockOutcome(gaveUp) ==
  IF ~fsys[RequestsFile].exists THEN "ENOENT"
  ELSE IF lock = "free" THEN "locked"
  ELSE IF gaveUp THEN "ELOCKED"
  ELSE "retry"

\* saveRequest / updateRequestStatus: the lock attempt; a failure is rethrown
WriteLock(p, gaveUp) ==
  /\ procs[p].pc = "lock"
  /\ LET out == LockOutcome(gaveUp) IN
     /\ out # "retry"
     /\ IF out = "locked"
        THEN /\ lock' = p
             /\ procs' = Proc(p, "read")
        ELSE /\ procs' = [procs EXCEPT ![p].pc = "idle", ![p].result = out]
             /\ UNCHANGED lock
  /\ UNCHANGED <<fsys, created, lifeVars>>

\* inside the lock: read and parse the file (requests = [] when that throws),
\* then push the request or set the status of the one found
Mutated(reqs, op, id) ==
  IF op = "save" THEN [reqs EXCEPT ![id] = "pending"]
  ELSE IF reqs[id] # "absent" THEN [reqs EXCEPT ![id] = "approved"]
  ELSE reqs

RmwReadStep(p, reqs) ==
  /\ procs[p].pc = "read"
  /\ LET found == procs[p].op = "save" \/ reqs[procs[p].id] # "absent" IN
     procs' = [procs EXCEPT ![p].local = Mutated(reqs, procs[p].op, procs[p].id),
                            ![p].pc = IF found THEN "write" ELSE "release",
                            ![p].result = IF found THEN "none" ELSE "ok"]
  /\ UNCHANGED <<fsys, lock, created, lifeVars>>

RmwRead(p) == RmwReadStep(p, ParseOr(RequestsFile, EmptyReqs))

\* fs.readFile or JSON.parse throws inside the lock (an I/O error, a file that is
\* not JSON): the empty catch leaves requests = [] and the call goes on
RmwReadFails(p) == RmwReadStep(p, EmptyReqs)

\* fs.writeFile(tempFile, ...) has truncated the file and written part of the text
WriteBegin(p) ==
  /\ procs[p].pc = "write"
  /\ fsys' = [fsys EXCEPT ![TempFile(RequestsFile)] = Text(procs[p].local, FALSE)]
  /\ procs' = Proc(p, "writing")
  /\ UNCHANGED <<lock, created, lifeVars>>

\* fs.writeFile settles: the whole text is in the file, or it failed part way
WriteEnd(p, ok) ==
  /\ procs[p].pc = "writing"
  /\ IF ok
     THEN /\ fsys' = [fsys EXCEPT ![TempFile(RequestsFile)] = Text(procs[p].local, TRUE)]
          /\ procs' = Proc(p, "rename")
     ELSE /\ procs' = [procs EXCEPT ![p].pc = "release", ![p].result = "EIO"]
          /\ UNCHANGED fsys
  /\ UNCHANGED <<lock, created, lifeVars>>

\* fs.rename(tempFile, requestsFile): atomic replacement
Renamed(from, to) ==
  IF from = to THEN fsys
  ELSE [fsys EXCEPT ![to] = fsys[from], ![from] = NoFile]

Rename(p, ok) ==
  /\ procs[p].pc = "rename"
  /\ fsys' = IF ok THEN Renamed(TempFile(RequestsFile), RequestsFile) ELSE fsys
  /\ procs' = [procs EXCEPT ![p].pc = "release", ![p].result = IF ok THEN "ok" ELSE "EIO"]
  /\ UNCHANGED <<lock, created, lifeVars>>

\* finally { await release() }: the call returns or rethrows
Release(p) ==
  /\ procs[p].pc = "release"
  /\ lock' = IF lock = p THEN "free" ELSE lock
  /\ procs' = Proc(p, "idle")
  /\ UNCHANGED <<fsys, created, lifeVars>>

\* loadRequests: the lock attempt; ENOENT returns [], any other failure falls
\* back to reading without the lock
ReadLock(p, gaveUp) ==
  /\ procs[p].pc = "rlock"
  /\ LET out == LockOutcome(gaveUp) IN
     /\ out # "retry"
     /\ IF out = "locked"
        THEN /\ lock' = p
             /\ procs' = Proc(p, "rread")
        ELSE /\ procs' = IF out = "ENOENT"
                         THEN [procs EXCEPT ![p].pc = "idle", ![p].result = "ok",
                                            ![p].got = EmptyReqs]
                         ELSE Proc(p, "fallback")
             /\ UNCHANGED lock
  /\ UNCHANGED <<fsys, created, lifeVars>>

\* loadRequests: JSON.parse(readFile) under the lock, or in the fallback, where
\* a failure returns []
LoadRead(p) ==
  /\ procs[p].pc \in {"rread", "fallback"}
  /\ procs' = [procs EXCEPT ![p].got = ParseOr(RequestsFile, EmptyReqs),
                            ![p].result = "ok",
                            ![p].pc = IF procs[p].pc = "rread" THEN "release" ELSE "idle"]
  /\ UNCHANGED <<fsys, lock, created, lifeVars>>

\* the process dies inside or between calls; a lock it holds stays behind
ProcCrash(p) ==
  /\ procs[p].pc # "dead"
  /\ procs' = [procs EXCEPT ![p].pc = "dead", ![p].result = "none"]
  /\ lock' = IF lock = p THEN "orphan" ELSE lock
  /\ UNCHANGED <<fsys, created, lifeVars>>

\* the process starts again and loads the requests (restoreActivePrivileges)
ProcRestart(p) ==
  /\ procs[p].pc = "dead"
  /\ procs' = [procs EXCEPT ![p].pc = "rlock", ![p].op = "load", ![p].id = 0]
  /\ UNCHANGED <<fsys, lock, created, lifeVars>>

\* a lock whose holder died goes stale and is removed by the next locker
StaleLock ==
  /\ lock = "orphan"
  /\ lock' = "free"
  /\ UNCHANGED <<fsys, procs, created, lifeVars>>

NextFile ==
  \/ \E p \in Procs, op \in {"save", "update"}, id \in FileIds : StoreCall(p, op, id)
  \/ \E p \in Procs : StoreCall(p, "load", 0)
  \/ \E p \in Procs, gaveUp \in BOOLEAN : WriteLock(p, gaveUp)
  \/ \E p \in Procs : RmwRead(p)
  \/ \E p \in Procs : WriteBegin(p)
  \/ \E p \in Procs, ok \in BOOLEAN : WriteEnd(p, ok)
  \/ \E p \in Procs, ok \in BOOLEAN : Rename(p, ok)
  \/ \E p \in Procs : Release(p)
  \/ \E p \in Procs, gaveUp \in BOOLEAN : ReadLock(p, gaveUp)
  \/ \E p \in Procs : LoadRead(p)
  \/ \E p \in Procs : ProcCrash(p)
  \/ \E p \in Procs : ProcRestart(p)
  \/ StaleLock

\* requests.json as earlier submissions left it
UsedFileInit ==
  /\ \E reqs \in [FileIds -> {"absent", "pending"}] :
        /\ fsys = [f \in FileNames |-> IF f = RequestsFile THEN Text(reqs, TRUE) ELSE NoFile]
        /\ created = { i \in FileIds : reqs[i] # "absent" }
  /\ lock = "free"
  /\ procs = [p \in Procs |-> IdleProc]

\* a machine on which requests.json exists already, or does not exist yet
FileSpecInit ==
  /\ osUser = Username
  /\ call = NoCall
  /\ SoloInit
  /\ UsedFileInit \/ FreshFileInit
  /\ LifeInit

FileSpec == FileSpecInit /\ [][NextFile]_vars

\* the store calls with reads that can fail inside the lock
NextFaultyFile ==
  \/ NextFile
  \/ \E p \in Procs : RmwReadFails(p)

FaultyFileSpec == FileSpecInit /\ [][NextFaultyFile]_vars

\* ------------------------------------- what updateRequestStatus does in the lock
\* updateRequestStatus of the main process got past its write (or found no
\* request to write) and has a window to notify
Notifies(p) ==
  /\ p = "app"
  /\ app = "window"
  /\ procs[p].op = "update"
  /\ procs[p].pc = "release"
  /\ procs[p].result = "ok"

\* mainWindow.webContents.send("request-status-updated", ...) and
\* new Notification({ title, body }).show(), inside the try block
Notify(p) ==
  /\ Notifies(p)
  /\ procs' = Proc(p, "notified")
  /\ UNCHANGED <<fsys, lock, created, lifeVars>>

\* finally { await release() } after the notifications
ReleaseNotified(p) ==
  /\ procs[p].pc = "notified"
  /\ lock' = IF lock = p THEN "free" ELSE lock
  /\ procs' = Proc(p, "idle")
  /\ UNCHANGED <<fsys, created, lifeVars>>

\* the store calls with the main process's notifications between write and release
NextLockScope ==
  \/ \E p \in Procs, op \in {"save", "update"}, id \in FileIds : StoreCall(p, op, id)
  \/ \E p \in Procs : StoreCall(p, "load", 0)
  \/ \E p \in Procs, gaveUp \in BOOLEAN : WriteLock(p, gaveUp)
  \/ \E p \in Procs : RmwRead(p)
  \/ \E p \in Procs : WriteBegin(p)
  \/ \E p \in Procs, ok \in BOOLEAN : WriteEnd(p, ok)
  \/ \E p \in Procs, ok \in BOOLEAN : Rename(p, ok)
  \/ \E p \in Procs : Notify(p)
  \/ \E p \in Procs : ReleaseNotified(p)
  \/ \E p \in Procs : ~Notifies(p) /\ Release(p)
  \/ \E p \in Procs, gaveUp \in BOOLEAN : ReadLock(p, gaveUp)
  \/ \E p \in Procs : LoadRead(p)
  \/ \E p \in Procs : ProcCrash(p)
  \/ \E p \in Procs : ProcRestart(p)
  \/ StaleLock

LockScopeSpec == FileSpecInit /\ [][NextLockScope]_vars

\* ------------------------------------------------------------------- Next
PresentedTokens == IssuedTokens \cup DOMAIN tokens

Next ==
  \/ Tick
  \/ \E d \in validDurations, ok \in BOOLEAN : RequestPrivileges(d, ok)
  \/ \E t \in PresentedTokens, ok \in BOOLEAN : ApproveLink(t, ok)
  \/ \E r \in Ids, a \in Actions, ok \in BOOLEAN : DashboardDecide(r, a, ok)
  \/ \E r \in Ids, a \in Actions, ok \in BOOLEAN : WsDecide(r, a, ok)
  \/ \E r \in Ids, a \in Actions, t \in PresentedTokens, ok \in BOOLEAN :
        WsDecideToken(r, a, t, ok)
  \/ CleanupExpiredTokens
  \/ \E r \in Ids : ActivateStart(r)
  \/ \E t \in BagToSet(tasks), ok \in BOOLEAN : ActivateGrant(t, ok)
  \/ \E t \in BagToSet(tasks), ok \in BOOLEAN : ActivatePersist(t, ok)
  \/ \E t \in BagToSet(timers), ok \in BOOLEAN : FireTimer(t, ok)
  \/ \E t \in BagToSet(tasks), ok \in BOOLEAN : ExpirePersist(t, ok)
  \/ Crash
  \/ Restart
  \/ RestoreLoad
  \/ \E ok \in BOOLEAN : RestoreRevoke(ok)
  \/ \E ok \in BOOLEAN : RestorePersist(ok)

Spec == Init /\ [][Next]_vars

\* the lifecycle without the token map: every status a token decision writes is
\* one a dashboard decision can write
NextLifecycle ==
  \/ Tick
  \/ \E d \in validDurations, ok \in BOOLEAN : RequestPrivileges(d, ok)
  \/ \E r \in Ids, a \in Actions, ok \in BOOLEAN : DashboardDecide(r, a, ok)
  \/ \E r \in Ids, a \in Actions, ok \in BOOLEAN : WsDecide(r, a, ok)
  \/ \E r \in Ids : ActivateStart(r)
  \/ \E t \in BagToSet(tasks), ok \in BOOLEAN : ActivateGrant(t, ok)
  \/ \E t \in BagToSet(tasks), ok \in BOOLEAN : ActivatePersist(t, ok)
  \/ \E t \in BagToSet(timers), ok \in BOOLEAN : FireTimer(t, ok)
  \/ \E t \in BagToSet(tasks), ok \in BOOLEAN : ExpirePersist(t, ok)
  \/ Crash
  \/ Restart
  \/ RestoreLoad
  \/ \E ok \in BOOLEAN : RestoreRevoke(ok)
  \/ \E ok \in BOOLEAN : RestorePersist(ok)

LifecycleSpec == Init /\ [][NextLifecycle]_vars

\* the lifecycle with the answers of grant-privileges observed
NextActivation ==
  \/ Tick
  \/ \E d \in validDurations, ok \in BOOLEAN : RequestPrivileges(d, ok)
  \/ \E r \in Ids, a \in Actions, ok \in BOOLEAN : DashboardDecide(r, a, ok)
  \/ \E r \in Ids, a \in Actions, ok \in BOOLEAN : WsDecide(r, a, ok)
  \/ \E r \in Ids : ActivateStartAnswered(r)
  \/ \E t \in BagToSet(tasks), ok \in BOOLEAN : ActivateGrantAnswered(t, ok)
  \/ \E t \in BagToSet(tasks), ok \in BOOLEAN : ActivatePersistAnswered(t, ok)
  \/ \E t \in BagToSet(timers), ok \in BOOLEAN : FireTimer(t, ok)
  \/ \E t \in BagToSet(tasks), ok \in BOOLEAN : ExpirePersist(t, ok)
  \/ Crash
  \/ Restart
  \/ RestoreLoad
  \/ \E ok \in BOOLEAN : RestoreRevoke(ok)
  \/ \E ok \in BOOLEAN : RestorePersist(ok)

ActivationSpec == Init /\ [][NextActivation]_vars

\* res.json({ success: true, ... }) of the dashboard routes, or the 500 of their catch
DashboardDecideAnswered(requestId, action, storeOk) ==
  /\ store' = IF storeOk THEN UpdatedStore(requestId, StatusFor(action), NULL) ELSE store
  /\ reply' = Reply(NoToken, DecideOutcome(requestId, storeOk))
  /\ UNCHANGED <<now, up, tokens, consumedLog, elevated, timers, tasks, restore>>
  /\ UNCHANGED aside

\* the request_approved / request_denied message of the tokenless WebSocket
\* handlers, or the error message of their catch
WsDecideAnswered(requestId, action, storeOk) ==
  /\ store' = IF storeOk THEN UpdatedStore(requestId, StatusFor(action), NULL) ELSE store
  /\ reply' = Reply(NoToken, DecideOutcome(requestId, storeOk))
  /\ UNCHANGED <<now, up, tokens, consumedLog, elevated, timers, tasks, restore>>
  /\ UNCHANGED aside

\* the token map alone: submissions, the three token-accepting steps, the sweep,
\* the clock and restarts
NextTokens ==
  \/ Tick
  \/ \E d \in validDurations, ok \in BOOLEAN : RequestPrivileges(d, ok)
  \/ \E t \in PresentedTokens, ok \in BOOLEAN : ApproveLink(t, ok)
  \/ \E r \in Ids, a \in Actions, t \in PresentedTokens, ok \in BOOLEAN :
        WsDecideToken(r, a, t, ok)
  \/ CleanupExpiredTokens
  \/ Crash
  \/ Restart
  \/ RestoreLoad

TokenSpec == Init /\ [][NextTokens]_vars

\* the decisions of all channels with their answers observed
NextDecisions ==
  \/ Tick
  \/ \E d \in validDurations, ok \in BOOLEAN : RequestPrivileges(d, ok)
  \/ \E t \in PresentedTokens, ok \in BOOLEAN : ApproveLink(t, ok)
  \/ \E r \in Ids, a \in Actions, ok \in BOOLEAN : DashboardDecideAnswered(r, a, ok)
  \/ \E r \in Ids, a \in Actions, ok \in BOOLEAN : WsDecideAnswered(r, a, ok)
  \/ \E r \in Ids, a \in Actions, t \in PresentedTokens, ok \in BOOLEAN :
        WsDecideToken(r, a, t, ok)
  \/ CleanupExpiredTokens
  \/ Crash
  \/ Restart
  \/ RestoreLoad

DecisionSpec == Init /\ [][NextDecisions]_vars

\* ------------------------------------------------- strings nobody issued
\* an issued token string with one field of its payload changed and the
\* signature left as it was
Altered(t) ==
  { [t EXCEPT !.action = a] : a \in Actions } \cup
  { [t EXCEPT !.expiresAt = @ + 1] }

\* a string put together without the secret
Fabricated ==
  { [requestId |-> r, action |-> a, expiresAt |-> MaxTime + TokenExpiration,
     hmac |-> Hmac("guess", r, a, MaxTime + TokenExpiration)] : r \in {1}, a \in {"approve"} }

ForgedTokens == (UNION { Altered(t) : t \in IssuedTokens } \cup Fabricated) \ IssuedTokens

\* the token channels of one run of the process, presented with issued and with
\* forged strings
NextForgery ==
  \/ Tick
  \/ \E d \in validDurations, ok \in BOOLEAN : RequestPrivileges(d, ok)
  \/ \E t \in PresentedTokens \cup ForgedTokens, ok \in BOOLEAN : ApproveLink(t, ok)
  \/ \E r \in Ids, a \in Actions, t \in PresentedTokens \cup ForgedTokens, ok \in BOOLEAN :
        WsDecideToken(r, a, t, ok)
  \/ CleanupExpiredTokens

ForgerySpec == Init /\ [][NextForgery]_vars

\* ------------------------------------------ submissions from any OS account
\* account short names the OS hands out: one the helper accepts, and one with a
\* dot (as in "john.doe"), which macOS allows
OsUsers == {Username, <<"Z", ".", "e">>}

SubmitInit ==
  /\ osUser \in OsUsers
  /\ call = NoCall
  /\ SoloInit
  /\ FileInit
  /\ LifeInit

SubmitSpec == SubmitInit /\ [][NextTokens]_vars

\* ------------------------------------------------- validation on its own
ValidateInit ==
  /\ osUser = Username
  /\ call = NoCall
  /\ validation \in [data : Forms, done : {FALSE}, errors : {<<>>}]
  /\ trip = NoTrip
  /\ WsInit
  /\ BootDone
  /\ wsc = NoLink
  /\ FileInit
  /\ LifeInit

\* validateRequestData(requestData) called by request-privileges
Validate ==
  /\ ~validation.done
  /\ validation' = [validation EXCEPT !.done = TRUE,
                                      !.errors = ValidateRequestData(validation.data)]
  /\ UNCHANGED <<now, up, store, tokens, consumedLog, elevated, timers, tasks, restore, reply>>
  /\ UNCHANGED <<osUser, call, fileVars, trip, wsVars, bootVars, wsc>>

ValidateSpec == ValidateInit /\ [][Validate]_vars

\* ------------------------------------------- issue and validate on their own
RoundTripInit ==
  /\ osUser = Username
  /\ call = NoCall
  /\ validation = NoValidation
  /\ WsInit
  /\ BootDone
  /\ wsc = NoLink
  /\ \E requestId \in RequestIds, action \in Actions :
        trip = [NoTrip EXCEPT !.pc = "start", !.requestId = requestId, !.action = action]
  /\ FileInit
  /\ LifeInit

\* tokenManager.generateSecureToken(requestId, action)
IssueToken ==
  /\ trip.pc = "start"
  /\ LET issued == GenerateSecureToken(trip.requestId, trip.action, now) IN
     trip' = [trip EXCEPT !.pc = "issued", !.token = issued.token, !.data = issued.data]
  /\ UNCHANGED <<now, up, store, tokens, consumedLog, elevated, timers, tasks, restore, reply>>
  /\ UNCHANGED <<osUser, call, fileVars, validation, wsVars, bootVars, wsc>>

\* tokenManager.validateSecureToken(token), the first validation of the token
ValidateToken ==
  /\ trip.pc = "issued"
  /\ LET out == ValidateSecureToken(trip.token, trip.data, now) IN
     trip' = [trip EXCEPT !.pc = "validated", !.out = out,
                          !.data.used = (out = "ok"),
                          !.result = IF out = "ok"
                                     THEN [requestId |-> trip.data.requestId,
                                           action |-> trip.data.action]
                                     ELSE NoTrip.result]
  /\ UNCHANGED <<now, up, store, tokens, consumedLog, elevated, timers, tasks, restore, reply>>
  /\ UNCHANGED <<osUser, call, fileVars, validation, wsVars, bootVars, wsc>>

NextRoundTrip ==
  \/ Tick
  \/ IssueToken
  \/ ValidateToken

RoundTripSpec == RoundTripInit /\ [][NextRoundTrip]_vars

\* ------------------------------------- the dashboard's WebSocket server
\* Every connection in the Map is open: "close" takes it out of the Map.
\* The app instances connect with WebSocketClient, which sends new_request and
\* ping and nothing else; the admin side sends what handleMessage has a case for.
\* the admin messages that write: get_pending_requests only reads and is not sent
AdminTypes == {"authenticate", "approve_request", "deny_request"}
DecisionTypes == {"approve_request", "deny_request"}

OutsideDashboard ==
  /\ UNCHANGED <<now, up, store, tokens, consumedLog, elevated, timers, tasks, restore, reply>>
  /\ UNCHANGED <<osUser, call, fileVars, validation, trip, bootVars, wsc>>

OutsideWs == OutsideDashboard /\ UNCHANGED <<sessions, served>>

\* sendToClient(ws, message)
SendToClient(cs, c, m) ==
  IF cs[c].kind # "none" THEN [cs EXCEPT ![c].received = @ \cup {m}] ELSE cs

\* sendError(ws, errorMessage)
SendError(cs, c) == SendToClient(cs, c, Msg("error", 0))

\* broadcast(message)
Broadcast(cs, m) ==
  [c \in ClientIds |->
     IF cs[c].isAuthenticated /\ cs[c].kind # "none"
     THEN [cs[c] EXCEPT !.received = @ \cup {m}]
     ELSE cs[c]]

\* requestsManager.updateRequestStatus(requestId, status) on the file's content
UpdateRequestStatus(reqs, requestId, status) ==
  IF reqs[requestId] # "none" THEN [reqs EXCEPT ![requestId] = status] ELSE reqs

\* the type handleApproveRequest and handleDenyRequest announce a decision with
AnnouncedAs(status) == IF status = "approved" THEN "request_approved" ELSE "request_denied"

\* wss.on("connection")
Connection(c, kind) ==
  /\ clients[c] = NoWs
  /\ clients' = [clients EXCEPT ![c] = [kind |-> kind, isAuthenticated |-> FALSE,
                                        sent |-> {},
                                        received |-> {Msg("connected", 0)}]]
  /\ UNCHANGED shared
  /\ OutsideWs

\* ws.on("close")
Close(c) ==
  /\ clients[c] # NoWs
  /\ clients' = [clients EXCEPT ![c] = NoWs]
  /\ UNCHANGED shared
  /\ OutsideWs

\* request-privileges of a connected app instance: saveRequest(request), then
\* notifyAdminDashboard(request) -> wsClient.notifyNewRequest(request)
NotifyAdminDashboard(c, r) ==
  /\ clients[c].kind = "app"
  /\ clients[c].sent = {}
  /\ shared[r] = "none"
  /\ \A q \in 1..(r - 1) : shared[q] # "none"
  /\ shared' = [shared EXCEPT ![r] = "pending"]
  /\ clients' = [clients EXCEPT ![c].sent = {Msg("new_request", r)}]
  /\ OutsideWs

\* the heartbeat of connectToDashboard: wsClient.ping()
Ping(c) ==
  /\ clients[c].kind = "app"
  /\ clients[c].sent = {}
  /\ clients' = [clients EXCEPT ![c].sent = {Msg("ping", 0)}]
  /\ UNCHANGED shared
  /\ OutsideWs

\* an admin connection sends a message of a type handleMessage has a case for
AdminSend(c, type, r) ==
  /\ clients[c].kind = "admin"
  /\ clients[c].sent = {}
  /\ clients' = [clients EXCEPT
                   ![c].sent = {Msg(type, IF type \in DecisionTypes THEN r ELSE 0)}]
  /\ UNCHANGED shared
  /\ OutsideWs

\* handleApproveRequest(ws, data) and handleDenyRequest(ws, data), data without a token
HandleDecision(cs, c, requestId, status, storeOk) ==
  IF ~cs[c].isAuthenticated
  THEN [cs |-> SendError(cs, c), reqs |-> shared]
  ELSE IF ~storeOk
  THEN [cs |-> SendError(cs, c), reqs |-> shared]
  ELSE [cs |-> SendToClient(Broadcast(cs, Msg(AnnouncedAs(status), requestId)), c,
                            Msg(AnnouncedAs(status), requestId)),
        reqs |-> UpdateRequestStatus(shared, requestId, status)]

\* handleMessage(ws, message): the switch on message.type; authOk is whether
\* authManager.authenticate accepts the credentials, storeOk whether the store
\* call of a decision returns
HandleMessage(cs, c, m, authOk, storeOk) ==
  CASE m.type = "authenticate" ->
         [cs |-> IF authOk
                 THEN SendToClient([cs EXCEPT ![c].isAuthenticated = TRUE], c,
                                   Msg("authenticated", 0))
                 ELSE SendError(cs, c),
          reqs |-> shared]
    [] m.type = "get_pending_requests" ->
         [cs |-> IF cs[c].isAuthenticated
                 THEN SendToClient(cs, c, Msg("pending_requests", 0))
                 ELSE SendError(cs, c),
          reqs |-> shared]
    [] m.type = "approve_request" -> HandleDecision(cs, c, m.requestId, "approved", storeOk)
    [] m.type = "deny_request" -> HandleDecision(cs, c, m.requestId, "denied", storeOk)
    [] m.type = "ping" -> [cs |-> SendToClient(cs, c, Msg("pong", 0)), reqs |-> shared]
    [] OTHER -> [cs |-> SendError(cs, c), reqs |-> shared]

\* ws.on("message"): the server takes the message a connection sent
OnMessage(c) ==
  /\ clients[c].sent # {}
  /\ \E m \in clients[c].sent, authOk \in BOOLEAN, storeOk \in BOOLEAN :
       LET after == HandleMessage([clients EXCEPT ![c].sent = {}], c, m, authOk, storeOk) IN
       /\ clients' = after.cs
       /\ shared' = after.reqs
  /\ OutsideWs

\* POST /api/requests/:requestId/approve and .../deny of the dashboard, in a
\* session requireAuth lets through
DashboardRoute(requestId, status) ==
  /\ shared' = UpdateRequestStatus(shared, requestId, status)
  /\ UNCHANGED clients
  /\ OutsideWs

\* ------------------------------------------- the dashboard's login sessions
\* a middleware that lets every request through
RequireAuth_Open(s) == TRUE

\* requireAuth: req.session && req.session.authenticated
RequireAuth(s) == sessions[s]

\* POST /api/admin/login behind requireGuest; authOk is whether
\* authManager.authenticate accepts the credentials
Login(s, authOk) ==
  /\ ~sessions[s]
  /\ sessions' = [sessions EXCEPT ![s] = authOk]
  /\ UNCHANGED <<clients, shared, served>>
  /\ OutsideDashboard

\* POST /api/admin/logout behind requireAuth: req.session.destroy
Logout(s) ==
  /\ RequireAuth(s)
  /\ sessions' = [sessions EXCEPT ![s] = FALSE]
  /\ UNCHANGED <<clients, shared, served>>
  /\ OutsideDashboard

\* POST /api/admin/requests/:requestId/approve and .../deny sent in session s:
\* requireAuth, then the route's handler
HttpDecision(s, requestId, status) ==
  /\ IF RequireAuth(s)
     THEN /\ shared' = UpdateRequestStatus(shared, requestId, status)
          /\ served' = [session |-> s, out |-> "ok"]
     ELSE /\ UNCHANGED shared
          /\ served' = [session |-> s, out |-> "refused"]
  /\ UNCHANGED <<clients, sessions>>
  /\ OutsideDashboard

\* the requests in the file
SavedIds == { r \in WsRequestIds : shared[r] # "none" }

\* one request an app instance saved earlier, still pending
AuthInit ==
  /\ osUser = Username
  /\ call = NoCall
  /\ validation = NoValidation
  /\ trip = NoTrip
  /\ clients = [c \in ClientIds |-> NoWs]
  /\ shared = [r \in WsRequestIds |-> IF r = 1 THEN "pending" ELSE "none"]
  /\ HttpInit
  /\ BootDone
  /\ wsc = NoLink
  /\ FileInit
  /\ LifeInit

NextAuth ==
  \/ \E c \in ClientIds : Connection(c, "admin")
  \/ \E c \in ClientIds : Close(c)
  \/ \E c \in ClientIds, type \in AdminTypes, r \in SavedIds : AdminSend(c, type, r)
  \/ \E c \in ClientIds : OnMessage(c)
  \/ \E s \in SessionIds, authOk \in BOOLEAN : Login(s, authOk)
  \/ \E s \in SessionIds : Logout(s)
  \/ \E s \in SessionIds, r \in SavedIds, status \in {"approved", "denied"} :
        HttpDecision(s, r, status)

AuthSpec == AuthInit /\ [][NextAuth]_vars

\* ------------------------------------------ startup and submit, configured
\* the main module is loaded with some environment; nothing is stored yet
BootInit ==
  /\ osUser = Username
  /\ call = NoCall
  /\ validation = NoValidation
  /\ trip = NoTrip
  /\ WsInit
  /\ env \in Envs
  /\ app = "loading"
  /\ wsc = NoLink
  /\ FileInit
  /\ LifeInit

\* app.whenReady().then: validation, then createWindow() or app.quit()
WhenReady ==
  /\ app = "loading"
  /\ app' = IF StartupErrors(env) = {} THEN "window" ELSE "quit"
  /\ UNCHANGED <<now, up, store, tokens, consumedLog, elevated, timers, tasks, restore, reply>>
  /\ UNCHANGED <<osUser, call, fileVars, validation, trip, wsVars, env, wsc>>

\* form data the renderer sends: a valid form and one with nothing filled in
SubmitForms ==
  { [fullName |-> JsText(<<[c |-> "a", n |-> 1]>>), duration |-> JsString(<<"1">>),
     reason |-> JsText(<<[c |-> "a", n |-> 1]>>)],
    NoForm }

\* what request-privileges answers: the error of the first step that throws, or "ok"
SubmitOutcome(requestData, storeOk) ==
  IF ValidateRequestData(requestData) # <<>> THEN "ValidationError"
  ELSE IF ~storeOk THEN "StoreError"
  ELSE GenerateOutcome(LoadConfig(env))

\* ipcMain.handle("request-privileges") invoked from the window: validateRequestData,
\* saveRequest, generateSecureToken for approve and for deny, notifyAdminDashboard.
\* generateSecureToken puts its entry into the token map before it builds its
\* return value.
SubmitRequest(requestData, storeOk) ==
  /\ app = "window"
  /\ up
  /\ Len(store) < MaxReq
  /\ LET out == SubmitOutcome(requestData, storeOk)
         id == Len(store) + 1
         cfg == LoadConfig(env)
         exp == IF cfg.tokenExpiration = NULL THEN NULL ELSE now + cfg.tokenExpiration
         data(a) == [requestId |-> id, action |-> a, expiresAt |-> exp, used |-> FALSE]
     IN /\ reply' = Reply(NoToken, out)
        /\ store' = IF out \in {"ValidationError", "StoreError"} THEN store
                    ELSE Append(store, [username |-> osUser,
                                        duration |-> ParseInt(requestData.duration),
                                        timestamp |-> now, status |-> "pending",
                                        expiresAt |-> NULL, activatedAt |-> NULL])
        /\ tokens' = IF out = "ok"
                     THEN (TokenString(id, "approve", exp) :> data("approve")) @@
                          (TokenString(id, "deny", exp) :> data("deny")) @@ tokens
                     ELSE IF out = "RangeError"
                     THEN (TokenString(id, "approve", exp) :> data("approve")) @@ tokens
                     ELSE tokens
  /\ UNCHANGED <<now, up, consumedLog, elevated, timers, tasks, restore>>
  /\ UNCHANGED aside

NextBoot ==
  \/ Tick
  \/ WhenReady
  \/ \E requestData \in SubmitForms, storeOk \in BOOLEAN : SubmitRequest(requestData, storeOk)

BootSpec == BootInit /\ [][NextBoot]_vars

NextWs ==
  \/ \E c \in ClientIds, kind \in WsKinds : Connection(c, kind)
  \/ \E c \in ClientIds : Close(c)
  \/ \E c \in ClientIds, r \in WsRequestIds : NotifyAdminDashboard(c, r)
  \/ \E c \in ClientIds : Ping(c)
  \/ \E c \in ClientIds, type \in AdminTypes, r \in WsRequestIds : AdminSend(c, type, r)
  \/ \E c \in ClientIds : OnMessage(c)
  \/ \E r \in WsRequestIds, status \in {"approved", "denied"} : DashboardRoute(r, status)

WsSpec == Init /\ [][NextWs]_vars

\* ------------------------------------------- the privilege helper on its own
HelperFns == {"addUserToAdminGroup", "removeUserFromAdminGroup"}

\* addUserToAdminGroup(username) / removeUserFromAdminGroup(username): validateUsername,
\* then sudoPrompt.exec(command); execOk = FALSE: the command fails. The calls
\* are followed up to the first one that puts an account into the admin group
HelperCall(fn, v, execOk) ==
  LET ran == HelperRuns(v) IN
  /\ elevated = {}
  /\ call' = [fn |-> fn, username |-> v, ran |-> ran,
              out |-> IF ~ran THEN HelperValidateUsername(v)
                      ELSE IF execOk THEN "resolved" ELSE "rejected"]
  /\ elevated' = IF ran /\ execOk
                 THEN IF fn = "addUserToAdminGroup"
                      THEN elevated \cup {v.chars}
                      ELSE elevated \ {v.chars}
                 ELSE elevated
  /\ UNCHANGED <<now, up, store, tokens, consumedLog, timers, tasks, restore, reply>>
  /\ UNCHANGED <<osUser, fileVars, soloVars>>

NextBackend == \E fn \in HelperFns, v \in JsValues, execOk \in BOOLEAN : HelperCall(fn, v, execOk)

BackendSpec == Init /\ [][NextBackend]_vars

\* the event loop runs every settled continuation and every due timer, and a
\* stopped process is started again; the clock cannot be held back for ever by
\* handlers that keep starting (strong fairness of Tick)
FairLifecycleSpec ==
  /\ LifecycleSpec
  /\ SF_vars(Tick)
  /\ WF_vars(Restart)
  /\ WF_vars(RestoreLoad)
  /\ WF_vars(\E ok \in BOOLEAN : RestoreRevoke(ok))
  /\ WF_vars(\E ok \in BOOLEAN : RestorePersist(ok))
  /\ WF_vars(\E t \in BagToSet(tasks), ok \in BOOLEAN : ActivateGrant(t, ok))
  /\ WF_vars(\E t \in BagToSet(tasks), ok \in BOOLEAN : ActivatePersist(t, ok))
  /\ WF_vars(\E t \in BagToSet(timers), ok \in BOOLEAN : FireTimer(t, ok))
  /\ WF_vars(\E t \in BagToSet(tasks), ok \in BOOLEAN : ExpirePersist(t, ok))

\* ===================================================================== claims
Stored(r) == r \in 1..Len(store)
Recovering == restore.pc \in {"load", "revoke", "persist", "persistUnrevoked"}

\* C1: every successful backend grant of an activation is eventually followed by
\* a revoke for the requester, whatever crash or store failure follows the grant;
\* so whenever the process runs with its recovery pass finished and no handler
\* suspended, a requester whom a grant left in the admin group has a revocation
\* timer armed (nothing else will ever perform the revoke).
C1_GrantHasPendingRevocation ==
  (up /\ restore.pc = "done" /\ BagCardinality(tasks) = 0 /\ Username \in elevated)
    => \E t \in BagToSet(timers) : t.user = Username

\* C2: a request's stored status changes only along pending->approved,
\* pending->denied, approved->active and active->expired.
LegalTransitions ==
  { <<"pending", "approved">>, <<"pending", "denied">>,
    <<"approved", "active">>, <<"active", "expired">> }

C2_OnlyLegalTransitions ==
  [][\A r \in 1..Len(store) :
        store'[r].status # store[r].status
          => <<store[r].status, store'[r].status>> \in LegalTransitions]_vars

\* C3: a decision applied to a request that an earlier decision already moved to
\* approved or denied is answered with InvalidTransitionError and leaves the
\* persisted status as the first decision set it.
C3_SecondDecisionRejected ==
  [][\A r \in 1..Len(store), a \in Actions :
        /\ store[r].status \in {"approved", "denied"}
        /\ (DashboardDecide(r, a, TRUE) \/ WsDecide(r, a, TRUE))
        => /\ DecideOutcome(r, TRUE) = "InvalidTransitionError"
           /\ store'[r].status = store[r].status]_vars

\* C4: a token that a successful validation consumed, or whose expiresAt has
\* passed, never passes validateSecureToken again, whatever the token map holds
\* (also after the sweep and after a restart).
KnownTokens == consumedLog \cup IssuedTokens \cup DOMAIN tokens

C4_SpentTokenNeverValidates ==
  \A t \in KnownTokens :
    (t \in consumedLog \/ now > t.expiresAt) => ValidateOutcome(t) # "ok"

\* a consumed token was presented again after the sweep removed it, and refused
C4_Witness ==
  /\ up
  /\ reply.tok \in consumedLog
  /\ reply.out = "invalid"
  /\ now > reply.tok.expiresAt

\* C5 (as claimed): a token that validated once fails every later validation
\* with the already-used error.
C5_SecondAttemptAlreadyUsed ==
  \A t \in consumedLog : up => ValidateOutcome(t) = "used"

\* C5 (amended): a token that validated once never validates again; the later
\* attempt fails with the already-used error while the token map still holds
\* the entry, and with the invalid-token error once the sweep or a restart
\* removed it.
C5_SecondAttemptRefused ==
  \A t \in consumedLog :
    ValidateOutcome(t) = IF t \in DOMAIN tokens THEN "used" ELSE "invalid"

\* a consumed token was presented a second time and answered already-used
C5_Witness ==
  /\ reply.tok \in consumedLog
  /\ reply.out = "used"
  /\ reply.tok \in DOMAIN tokens

\* C6 (as claimed): a token presented after its expiry fails with the expired
\* error on every such attempt.
C6_ExpiredTokenExpiredError ==
  \A t \in IssuedTokens : (up /\ now > t.expiresAt) => ValidateOutcome(t) = "expired"

\* C6 (amended): a token presented after its expiry never validates; it fails
\* with the expired error only when it is unconsumed and still in the token map
\* (that attempt deletes the entry), with the already-used error when it is
\* consumed and still in the map, and with the invalid-token error otherwise.
C6_ExpiredOutcome(t) ==
  IF t \notin DOMAIN tokens THEN "invalid"
  ELSE IF t \in consumedLog THEN "used"
  ELSE "expired"

C6_ExpiredTokenRefused ==
  /\ \A t \in IssuedTokens : now > t.expiresAt => ValidateOutcome(t) = C6_ExpiredOutcome(t)
  /\ reply.out = "expired" => reply.tok \notin DOMAIN tokens

\* an unconsumed token was refused as expired, and its next attempt is refused
\* as invalid
C6_Witness ==
  /\ up
  /\ reply.out = "expired"
  /\ reply.tok \notin consumedLog
  /\ now > reply.tok.expiresAt
  /\ ValidateOutcome(reply.tok) = "invalid"

\* C7: an activate call on a request that is already active is a no-op that
\* returns the existing expiresAt: the handler does not refuse it.
C7_SecondActivateIsNoop ==
  \A r \in Ids :
    (up /\ Stored(r) /\ store[r].status = "active") => ActivateOutcome(r) # "NotApproved"

\* C8: while a persisted active request whose expiresAt has passed still waits
\* for the recovery pass to revoke it, no new privilege request is accepted.
StaleActive(r) == Stored(r) /\ IsActive(store[r]) /\ store[r].expiresAt <= now

C8_RecoveryBeforeNewRequests ==
  [][\A d \in validDurations :
        RequestPrivileges(d, TRUE)
        => ~(Recovering /\ \E r \in Ids : StaleActive(r))]_vars

\* C9: after a restart, the revocation of a persisted active request whose
\* expiresAt is in the future fires at expiresAt: the recovery pass leaves a
\* timer armed for expiresAt, no recovery revoke runs before the expiresAt it
\* read, and an armed timer does fire (or the process stops).
SnapRead == IF restore.pc = "load" THEN store ELSE restore.snap
NowRead == IF restore.pc = "load" THEN now ELSE restore.now0
RestoreArmed(r) == \E t \in BagToSet(timers) : t.kind = "restore" /\ t.id = r

C9_NotBefore ==
  /\ \A t \in BagToSet(timers), ok \in BOOLEAN :
       (t.kind = "restore" /\ FireTimer(t, ok)) => now >= t.exp
  /\ \A ok \in BOOLEAN :
       RestoreRevoke(ok) => now >= restore.snap[restore.i].expiresAt

C9_Armed ==
  (Recovering /\ restore'.pc = "done")
    => \A k \in 1..Len(SnapRead) :
         (IsActive(SnapRead[k]) /\ SnapRead[k].expiresAt > NowRead)
           => \E t \in BagToSet(timers') :
                /\ t.kind = "restore" /\ t.id = k
                /\ t.fireAt = SnapRead[k].expiresAt

C10_ExpiredWrite(r) ==
  \/ \E t \in BagToSet(tasks) :
        t.kind = "expire" /\ t.id = r /\ t.revoked /\ ExpirePersist(t, TRUE)
  \/ restore.pc = "persist" /\ restore.i = r /\ RestorePersist(TRUE)

C10_ExpiredOnlyAfterRevoke ==
  [][/\ \A r \in 1..Len(store) :
          (store'[r].status = "expired" /\ store[r].status # "expired")
            => C10_ExpiredWrite(r)
     /\ \A t \in BagToSet(timers) :
          FireTimer(t, FALSE) => (store' = store /\ tasks' = tasks)
     /\ RestoreRevoke(FALSE)
          => (store' = store /\ restore'.pc \notin {"persist", "persistUnrevoked"})]_vars

\* a request expired after its revoke, and another revoke failed leaving its
\* request active with the requester still in the admin group
C10_Witness ==
  /\ \E r \in Ids : Stored(r) /\ store[r].status = "expired"
  /\ \E r \in Ids : Stored(r) /\ IsActive(store[r]) /\ store[r].expiresAt <= now
                     /\ ~InFlight /\ up /\ timers = EmptyBag /\ Username \in elevated

\* C11: when the backend grant fails during activate the transition is aborted:
\* the call is answered with the backend error, the store is left as it was (no
\* status, no expiresAt written), no timer is armed, nobody is elevated, the
\* handler does not go on, and a request still stored as approved can be
\* activated again.
C11_GrantFailureAborts ==
  [][\A t \in BagToSet(tasks) :
        ActivateGrantAnswered(t, FALSE)
        => /\ reply'.out = "BackendError"
           /\ store' = store
           /\ timers' = timers
           /\ elevated' = elevated
           /\ tasks' = tasks (-) One(t)
           /\ (Stored(t.id) /\ store[t.id].status = "approved")
                => (ActivateOutcome(t.id) = "granting")']_vars

\* a grant failed and left an approved request with nothing granted or armed
C11_Witness ==
  /\ reply.out = "BackendError"
  /\ up /\ tasks = EmptyBag /\ timers = EmptyBag /\ elevated = {}
  /\ \E r \in Ids : Stored(r) /\ store[r].status = "approved" /\ store[r].expiresAt = NULL
                     /\ ActivateOutcome(r) = "granting"

\* C20: activate on a request stored as pending, denied or expired, or on an
\* unknown id, is refused without a backend call, without a timer and without
\* a change of the store.
C20_Refused(r) == ~Stored(r) \/ store[r].status \in {"pending", "denied", "expired"}

C20_ActivateRefusedCleanly ==
  [][\A r \in Ids :
        (C20_Refused(r) /\ ActivateStartAnswered(r))
        => /\ reply'.out = "NotApproved"
           /\ tasks' = tasks
           /\ timers' = timers
           /\ elevated' = elevated
           /\ store' = store]_vars

\* an activate was refused in a run in which no request was ever active
C20_Witness ==
  /\ reply.out = "NotApproved"
  /\ Len(store) >= 1
  /\ \A r \in 1..Len(store) : store[r].expiresAt = NULL
  /\ elevated = {} /\ timers = EmptyBag /\ tasks = EmptyBag

\* C12: concurrent lifecycle calls on one request are equivalent to some
\* sequential order of the same calls; in a sequential order nothing runs
\* between an activation's status check and its write, so the status an
\* activation overwrites with active is the approved it checked.
C12_ActivationLinearizable ==
  [][\A t \in BagToSet(tasks) :
        ActivatePersist(t, TRUE)
        => Stored(t.id) /\ store[t.id].status = "approved"]_vars

\* C13: when two processes call update or create on disjoint request ids at the
\* same time (and no file operation fails), both calls succeed and both
\* mutations are in the final snapshot.
Wrote(p) ==
  /\ procs[p].pc = "idle" /\ procs[p].calls >= 1
  /\ procs[p].op \in {"save", "update"}
  /\ procs[p].result # "EIO"

Applied(p) ==
  LET status == fsys[RequestsFile].reqs[procs[p].id] IN
  IF procs[p].op = "save" THEN status # "absent" ELSE status \in {"approved", "absent"}

Visible == IF fsys[RequestsFile].exists THEN fsys[RequestsFile].reqs ELSE EmptyReqs

C14_VisibleWhole == fsys[RequestsFile].exists => fsys[RequestsFile].whole

C14_OnlyRenameCommits ==
  fsys'[RequestsFile] # fsys[RequestsFile]
    => \E p \in Procs : /\ Rename(p, TRUE)
                        /\ fsys'[RequestsFile] = Text(procs[p].local, TRUE)

C14_ReadsVisible ==
  \A p \in Procs : LoadRead(p) => (C14_VisibleWhole /\ procs'[p].got = Visible)

C14_NoTornSnapshot ==
  /\ []C14_VisibleWhole
  /\ [][C14_OnlyRenameCommits /\ C14_ReadsVisible]_vars

\* a process died part way through writing the temporary file, started again
\* and loaded the committed snapshot while the torn temporary file lay there
C14_Witness ==
  \E p \in Procs :
    /\ procs[p].pc = "idle" /\ procs[p].op = "load" /\ procs[p].calls = 1
    /\ procs[p].result = "ok"
    /\ fsys[TempFile(RequestsFile)].exists /\ ~fsys[TempFile(RequestsFile)].whole
    /\ fsys[TempFile(RequestsFile)].reqs # Visible
    /\ procs[p].got = Visible
    /\ Visible # EmptyReqs

\* C15: a submission whose requester identity has a character outside letters,
\* digits, dash and underscore is refused: no request of it is stored and no token
\* is issued for it
C15_BadIdentityRefused ==
  ~PatternTest(osUser) => (store = <<>> /\ tokens = <<>>)

\* C16: addUserToAdminGroup and removeUserFromAdminGroup run no command for an
\* identity that is empty, not a string, or has a character outside letters,
\* digits, dash and underscore: they fail in validateUsername
C16_Invalid(v) ==
  \/ v.type # "string"
  \/ v.chars = <<>>
  \/ \E i \in 1..Len(v.chars) : v.chars[i] \notin AllowedChars

C16_NoCommandForInvalidIdentity ==
  (call.fn \in HelperFns /\ C16_Invalid(call.username)) =>
     /\ ~call.ran
     /\ call.out \in {"NotAString", "BadFormat"}
     /\ call.username.chars \notin elevated

\* a call with a valid first character and a disallowed second one was refused
C16_Witness ==
  /\ call.fn = "removeUserFromAdminGroup"
  /\ call.username = JsString(<<"a", ";">>)
  /\ ~call.ran
  /\ call.out = "BadFormat"


\* C17: a submission that completes stores a new request with status pending and
\* puts exactly two tokens for its id into the token map, one with action approve
\* and one with action deny, under two different token strings
TokensOf(map, r) == { t \in DOMAIN map : map[t].requestId = r }

C17_TwoTokens ==
  Len(store') = Len(store) + 1 =>
    LET id == Len(store') IN
    /\ SubSeq(store', 1, Len(store)) = store
    /\ store'[id].status = "pending"
    /\ DOMAIN tokens' \ DOMAIN tokens = TokensOf(tokens', id)
    /\ Cardinality(TokensOf(tokens', id)) = 2
    /\ { tokens'[t].action : t \in TokensOf(tokens', id) } = {"approve", "deny"}
    /\ \A t \in TokensOf(tokens', id) :
         /\ t.requestId = id /\ t.action = tokens'[t].action
         /\ ~tokens'[t].used
    /\ \A t \in DOMAIN tokens : tokens'[t] = tokens[t]

C19_ExpiresAtIffActiveOrExpired ==
  \A r \in 1..Len(store) :
    (store[r].expiresAt # NULL) <=> (store[r].status \in {"active", "expired"})

\* C18: after submit, approval, activation and the passing of the requested
\* duration, the stored record is expired and its stored expiresAt is its stored
\* activatedAt plus the duration
C18_ExpiresAtIsActivatedAtPlusDuration ==
  \A r \in 1..Len(store) :
    store[r].status = "expired" =>
      /\ store[r].activatedAt # NULL
      /\ store[r].expiresAt = store[r].activatedAt + store[r].duration

\* C21: a decision for a request id that is not in the store is answered as a
\* failure (not found), whatever the channel
C21_UnknownIdDecisionFails ==
  (store = <<>> /\ reply.tok = NoToken) => reply.out # "ok"

\* the constraints of a submission that a form violates, field by field
C22_NameViolations(v) ==
  IF Missing(v) THEN {"Full name is required"}
  ELSE IF RunLength(Trim(v.runs)) = 0 THEN {"Full name cannot be empty"}
  ELSE (IF RunLength(Trim(v.runs)) > NameMaxLength
        THEN {"Full name must be less than 100 characters"} ELSE {})
       \cup
       (IF \E k \in 1..Len(Trim(v.runs)) : Trim(v.runs)[k].c \notin NameChars
        THEN {"Full name contains invalid characters"} ELSE {})

C22_DurationViolations(v) ==
  IF ParseInt(v) \in validDurations THEN {} ELSE {"Invalid duration selected"}

C22_ReasonViolations(v) ==
  IF Missing(v) THEN {"Reason is required"}
  ELSE IF RunLength(Trim(v.runs)) = 0 THEN {"Reason cannot be empty"}
  ELSE IF RunLength(Trim(v.runs)) > ReasonMaxLength
  THEN {"Reason must be less than 1000 characters"} ELSE {}

C22_Fields(data) ==
  { C22_NameViolations(data.fullName), C22_DurationViolations(data.duration),
    C22_ReasonViolations(data.reason) }

C22_Listed == { validation.errors[k] : k \in 1..Len(validation.errors) }

\* C22 (as claimed): the validation error lists every constraint the submission
\* violates, also two constraints of the same field
C22_EveryViolationListed ==
  validation.done => \A f \in C22_Fields(validation.data) : f \subseteq C22_Listed

\* C22 (amended): the validation error lists one message for each field that
\* violates a constraint and nothing else; of a display name that is both too
\* long and has invalid characters it lists the length only
C22_OneMessagePerInvalidField ==
  validation.done =>
    /\ \A f \in C22_Fields(validation.data) :
         (f # {}) => Cardinality(f \cap C22_Listed) = 1
    /\ C22_Listed \subseteq UNION C22_Fields(validation.data)
    /\ Len(validation.errors) = Cardinality(C22_Listed)
    /\ Cardinality(C22_NameViolations(validation.data.fullName)) = 2 =>
         "Full name must be less than 100 characters" \in C22_Listed

\* a form with a display name too long and with invalid characters, an invalid
\* duration and no reason: three messages
C22_Witness ==
  /\ validation.done
  /\ Cardinality(C22_NameViolations(validation.data.fullName)) = 2
  /\ C22_DurationViolations(validation.data.duration) # {}
  /\ validation.data.reason = JsOther("undefined")
  /\ Len(validation.errors) = 3

\* C24: on a store whose file does not exist yet, loadRequests returns the empty
\* collection and saveRequest succeeds; no store call reports the missing file
\* as an error
C24_MissingFileIsNoError ==
  \A p \in Procs :
    (procs[p].pc = "idle" /\ procs[p].op \in {"load", "save"}) =>
       procs[p].result # "ENOENT"

\* C23: once a request record is in the stored collection, no store call of any
\* process removes it, also when a call hits a read or parse error on the file
C23_Kept == \A i \in FileIds : Visible[i] # "absent" => Visible'[i] # "absent"

C23_NoRecordRemoved == [][C23_Kept]_vars

\* C25: validateSecureToken succeeds only for a string that generateSecureToken
\* returned in the running process, with payload and signature as issued; a
\* fabricated or altered string is refused and changes no request's status
C25_ValidatesOnlyIssued ==
  \A t \in PresentedTokens \cup ForgedTokens :
    ValidateOutcome(t) = "ok" =>
      /\ up
      /\ t \in DOMAIN tokens
      /\ t \notin ForgedTokens
      /\ t = TokenString(tokens[t].requestId, tokens[t].action, tokens[t].expiresAt)

C25_MapHoldsIssued == DOMAIN tokens \subseteq IssuedTokens

C25_ForgedRefused ==
  reply.tok \in ForgedTokens => reply.out \in {"invalid", "signature", "mismatch"}

C25_ForgedChangesNothing ==
  (reply' # reply /\ reply'.tok \in ForgedTokens) =>
     (store' = store /\ consumedLog' = consumedLog)

C25_OnlyIssuedTokensValidate ==
  /\ [](C25_ValidatesOnlyIssued /\ C25_MapHoldsIssued /\ C25_ForgedRefused)
  /\ [][C25_ForgedChangesNothing]_vars

\* an approve token altered into a deny token was presented while the original
\* was still valid, and refused
C25_Witness ==
  /\ up
  /\ reply.tok \in ForgedTokens
  /\ reply.out = "invalid"
  /\ \E t \in DOMAIN tokens :
        /\ reply.tok = [t EXCEPT !.action = "deny"]
        /\ t.action = "approve"
        /\ ValidateOutcome(t) = "ok"
        /\ store[t.requestId].status = "pending"

\* C27: after a restart every token issued before it is refused as unknown and
\* authorizes no transition, also when it was never used and has not expired:
\* the restart leaves the token map empty, a token enters the map only with the
\* submission of a new request, and a token outside the map is refused
C27_RestartForgets ==
  (~up /\ up') => \A t \in IssuedTokens : t \notin DOMAIN tokens'

C27_OnlyNewTokensEnter ==
  \A t \in DOMAIN tokens' \ DOMAIN tokens :
    /\ Len(store') = Len(store) + 1
    /\ t.requestId = Len(store')
    /\ t \notin IssuedTokens

C27_UnknownChangesNothing ==
  (reply' # reply /\ reply'.tok # NoToken /\ reply'.tok \notin DOMAIN tokens) =>
     (reply'.out = "invalid" /\ store' = store)

C27_UnknownRefused ==
  \A t \in IssuedTokens \ DOMAIN tokens : ValidateOutcome(t) = "invalid"

C27_TokensDoNotSurviveRestart ==
  /\ []C27_UnknownRefused
  /\ [][C27_RestartForgets /\ C27_OnlyNewTokensEnter /\ C27_UnknownChangesNothing]_vars

\* a token issued before the restart, unused and inside its validity window, was
\* presented after the restart and refused as unknown; its request is still pending
C27_Witness ==
  /\ up
  /\ reply.tok \in IssuedTokens
  /\ reply.out = "invalid"
  /\ reply.tok \notin consumedLog
  /\ now <= reply.tok.expiresAt
  /\ store[reply.tok.requestId].status = "pending"

\* C28: a token authorizes only the action in it: a step that consumes a token
\* changes a status only to the status of that token's action
C28_OnlyEmbeddedAction ==
  \A t \in consumedLog' \ consumedLog :
    \A r \in 1..Len(store) :
      store'[r].status # store[r].status => store'[r].status = StatusFor(t.action)

C28_TokenAuthorizesItsAction == [][C28_OnlyEmbeddedAction]_vars

\* C26: for every non-empty requestId and every action, validating the token
\* that generateSecureToken returned, before its expiry and before any other
\* validation of it, returns that requestId and action
C26_RoundTrip ==
  (trip.pc = "validated" /\ trip.out # "expired") =>
     /\ trip.out = "ok"
     /\ trip.result = [requestId |-> trip.requestId, action |-> trip.action]


\* the server took the new_request message that app connection c sent for request r
C29_Taken(c, r) ==
  /\ Msg("new_request", r) \in clients[c].sent
  /\ clients'[c].kind = "app"
  /\ clients'[c].sent = {}

\* C29: when the dashboard server takes a new_request message of a connected
\* app instance, the request is in the shared storage and every authenticated
\* admin connection has received a new_request message for it.
C29_NewRequestSavedAndBroadcast ==
  [][\A c \in ClientIds, r \in WsRequestIds :
       C29_Taken(c, r) =>
         /\ shared'[r] # "none"
         /\ \A a \in ClientIds :
              (clients'[a].kind = "admin" /\ clients'[a].isAuthenticated)
                => Msg("new_request", r) \in clients'[a].received]_vars

\* the dashboard, by a route or by a WebSocket message, gave request r a decision
C30_Decided(r) ==
  /\ shared[r] # "none"
  /\ shared'[r] \in {"approved", "denied"}
  /\ shared'[r] # shared[r]

\* C30: when the dashboard approves or denies a request, every connected app
\* instance has received a message announcing that decision for that request.
C30_StatusUpdateDelivered ==
  [][\A r \in WsRequestIds :
       C30_Decided(r) =>
         \A a \in ClientIds :
            clients'[a].kind = "app"
              => Msg(AnnouncedAs(shared'[r]), r) \in clients'[a].received]_vars


\* a stored request's status changes in this step
C31_StatusChanges ==
  \E r \in WsRequestIds : shared[r] # "none" /\ shared'[r] # shared[r]

\* the connection whose message the WebSocket server takes in this step
C31_Sender(c) == clients[c].sent # {} /\ clients'[c].sent = {}

\* a status written by a route was written for a session that is logged in
C31_RouteNeedsSession ==
  (C31_StatusChanges /\ clients' = clients)
    => (served'.out = "ok" /\ sessions[served'.session])

\* a status written by a WebSocket handler was written for a connection that
\* had authenticated before the message was taken
C31_MessageNeedsAuthentication ==
  (C31_StatusChanges /\ clients' # clients)
    => \E c \in ClientIds : C31_Sender(c) /\ clients[c].isAuthenticated

\* a connection becomes authenticated only by an authenticate message, and a
\* session only while it is not logged in yet
C31_AuthenticatedByLogin ==
  /\ \A c \in ClientIds :
       (~clients[c].isAuthenticated /\ clients'[c].isAuthenticated)
         => Msg("authenticate", 0) \in clients[c].sent
  /\ \A s \in SessionIds : (~sessions[s] /\ sessions'[s]) => shared' = shared

\* an approve or deny attempt of a session or connection that is not
\* authenticated leaves the store as it was
C31_RefusedChangesNothing ==
  /\ (served' # served /\ served'.out = "refused") => shared' = shared
  /\ \A c \in ClientIds :
       (C31_Sender(c) /\ ~clients[c].isAuthenticated) => shared' = shared

\* C31: through the dashboard's HTTP routes and WebSocket handlers a request's
\* stored status changes only for a session or connection that authenticated
\* before, and an attempt of an unauthenticated one leaves the store unchanged.
C31_OnlyAuthenticatedDecide ==
  [][/\ C31_RouteNeedsSession
     /\ C31_MessageNeedsAuthentication
     /\ C31_AuthenticatedByLogin
     /\ C31_RefusedChangesNothing]_vars

\* a route and a WebSocket message were refused for want of authentication
\* while another session was logged in and decided a request
C31_Witness ==
  /\ served.out = "refused"
  /\ \E s \in SessionIds : sessions[s] /\ s # served.session
  /\ \E c \in ClientIds : ~clients[c].isAuthenticated /\ Msg("error", 0) \in clients[c].received
  /\ \E c \in ClientIds : clients[c].isAuthenticated
  /\ \E r \in WsRequestIds : shared[r] \in {"approved", "denied"}


\* the callback of timer t runs in this step
C32_Fires(t) == up /\ up' /\ BagIn(t, timers) /\ timers' = timers (-) One(t)

\* C32: when an expiry timer's callback runs for a request whose stored status is
\* no longer active, the backend revoke is not invoked (nobody leaves the admin
\* group) and no write of status expired is started.
C32_RevocationOfInactiveIsNoop ==
  [][\A t \in BagToSet(timers) :
       (C32_Fires(t) /\ store[t.id].status # "active")
         => (elevated' = elevated /\ tasks' = tasks)]_vars


\* grant-privileges call t, whose backend grant succeeded, returns or throws in this step
C33_Settles(t) ==
  /\ up /\ up'
  /\ BagIn(t, tasks) /\ t.kind = "activate" /\ t.pc = "persist"
  /\ tasks' = tasks (-) One(t)

\* C33: when a grant-privileges call that elevated the requester returns or
\* throws, the request is stored as active with an expiresAt and a revocation
\* timer for it is armed.
C33_ElevatedOnlyIfActiveWithTimer ==
  [][\A t \in BagToSet(tasks) :
       C33_Settles(t) =>
         /\ store'[t.id].status = "active"
         /\ store'[t.id].expiresAt # NULL
         /\ \E m \in BagToSet(timers') : m.id = t.id]_vars


\* a request other than `id` of the same requester is stored as active and not yet due
C34_OtherStillActive(id, user) ==
  \E r \in 1..Len(store) :
    /\ r # id
    /\ store[r].username = user
    /\ store[r].status = "active"
    /\ store[r].expiresAt # NULL /\ store[r].expiresAt > now

\* the revocation this step runs, by a timer or by the recovery pass: request and requester
C34_Revoked ==
  { [id |-> t.id, user |-> t.user] :
      t \in { x \in BagToSet(timers) : up /\ up' /\ timers' = timers (-) One(x) } }
  \cup
  { [id |-> restore.i, user |-> restore.snap[restore.i].username] :
      x \in { y \in {1} : up /\ up' /\ restore.pc = "revoke" /\ restore' # restore } }

\* C34: the expiry or revocation of one request leaves the requester elevated
\* while another request of the same requester is active and not yet due.
C34_OtherRequestKeepsElevation ==
  [][\A v \in C34_Revoked :
       (C34_OtherStillActive(v.id, v.user) /\ v.user \in elevated)
         => v.user \in elevated']_vars


\* the expiresAt persisted for request r has been reached
C35_Due(r) == store[r].expiresAt # NULL /\ now >= store[r].expiresAt

\* the requests on whose behalf this step issues a revoke
C35_RevokedFor ==
  { t.id : t \in { x \in BagToSet(timers) : up /\ up' /\ timers' = timers (-) One(x) } }
  \cup { r \in 1..Len(store) : up /\ up' /\ restore.pc = "revoke" /\ restore' # restore
                                  /\ r = restore.i }

\* the requests this step writes status expired for
C35_ExpiredHere ==
  { r \in 1..Len(store) : store[r].status # "expired" /\ store'[r].status = "expired" }

\* C35: a revoke is issued for a request, and its status set to expired, only
\* once the expiresAt persisted for it at that moment has been reached.
C35_NothingBeforeExpiresAt ==
  [][\A r \in C35_RevokedFor \cup C35_ExpiredHere : C35_Due(r)]_vars


\* request-privileges threw in this step
C36_SubmitFailed ==
  /\ reply' # reply \/ store' # store
  /\ reply'.out \in {"ValidationError", "StoreError", "TokenError", "RangeError"}

\* C36: a submit that fails, at validation, at the store or at a token, leaves
\* no record of the request in the store.
C36_FailedSubmitLeavesNoRecord ==
  [][C36_SubmitFailed => store' = store]_vars

\* C38: a process that has issued a token has a token secret of at least 32
\* characters, and the window that submits requests exists only with such a secret.
C38_NoTokenWithShortSecret ==
  /\ app = "window" => (env.tokenSecret # NULL /\ env.tokenSecret >= TokenSecretMinLength)
  /\ tokens # <<>> => (env.tokenSecret # NULL /\ env.tokenSecret >= TokenSecretMinLength)

\* a secret one character short, in an otherwise valid environment, made the
\* startup quit
C38_Rejected ==
  /\ app = "quit"
  /\ env.tokenSecret = TokenSecretMinLength - 1
  /\ env.smtpHost /\ env.smtpUser /\ env.smtpPass /\ env.smtpPort /\ env.adminEmail


\* C37: a store call holds the lock for its read-modify-write cycle only: a
\* process that has made an outward call within a store call does not hold the lock.
C37_NoOutwardCallInsideLock ==
  \A p \in Procs : procs[p].pc = "notified" => lock # p

\* --------------------------------------------------- recovery after a failure
\* C39: during recovery at process start a failed revoke or a failed store write
\* for one active request does not stop the pass: the loop goes on to the next
\* stored active request whose expiresAt has passed, which is revoked next, and
\* every active request before that one whose expiresAt is still ahead gets a
\* timer armed for its remaining duration.
C39_Failure == RestoreRevoke(FALSE) \/ RestorePersist(FALSE)

C39_PastDue(k) ==
  IsActive(restore.snap[k]) /\ ~(restore.snap[k].expiresAt > restore.now0)

C39_Ahead(k) ==
  IsActive(restore.snap[k]) /\ restore.snap[k].expiresAt > restore.now0

C39_GoesOn ==
  LET rest == (restore.i + 1)..Len(restore.snap)
      due == { k \in rest : C39_PastDue(k) }
  IN /\ due # {} =>
          /\ restore'.pc = "revoke"
          /\ restore'.i \in due
          /\ \A k \in due : restore'.i <= k
          /\ restore'.snap = restore.snap /\ restore'.now0 = restore.now0
     /\ due = {} => restore'.pc = "done"
     /\ \A k \in rest :
          (C39_Ahead(k) /\ \A d \in due : k < d)
            => \E t \in BagToSet(timers') :
                 /\ t.kind = "restore" /\ t.id = k
                 /\ t.fireAt = now + (restore.snap[k].expiresAt - restore.now0)

C39_FailureDoesNotStopPass == [][C39_Failure => C39_GoesOn]_vars

\* the pass failed on the first request, which is still stored active, and has
\* gone on to revoke the second
C39_Witness ==
  /\ restore.pc = "persist" /\ restore.i = 2
  /\ IsActive(restore.snap[1]) /\ ~(restore.snap[1].expiresAt > restore.now0)
  /\ Stored(1) /\ IsActive(store[1])

\* ------------------------------------------- the WebSocket client of the app
\* wsc.ws is the readyState of this.ws ("null" when this.ws is null); the
\* handlers connect() registers on a socket stay registered when this.ws is
\* set to another value, so a socket the client dropped still reports its
\* "close" to the client (wsc.dropped counts those). wsc.disconnected records
\* that disconnect() was called and the program has not called connect() since.
clientFrame == <<now, up, store, tokens, consumedLog, elevated, timers, tasks, restore, reply,
                 osUser, call, fileVars, validation, trip, wsVars, bootVars>>

\* clearReconnectTimer()
ClearReconnectTimer(c) == [c EXCEPT !.reconnectTimer = NULL]

\* scheduleReconnect(): clearReconnectTimer(), then setTimeout(() => this.connect(),
\* this.reconnectInterval)
ScheduleReconnect(c) == [c EXCEPT !.reconnectTimer = now + ReconnectInterval]

\* a socket that is not closed yet will emit "close"
Live(ws) == ws \in {"connecting", "open"}

\* connect(): returns at once while connecting or open; new WebSocket(url)
\* either throws (thrown) or gives a socket in state CONNECTING, which
\* replaces this.ws
Connect(c, thrown) ==
  IF c.isConnecting \/ c.ws = "open" THEN c
  ELSE IF thrown THEN ScheduleReconnect([c EXCEPT !.isConnecting = FALSE])
  ELSE [c EXCEPT !.isConnecting = TRUE, !.ws = "connecting",
                 !.dropped = IF Live(c.ws) THEN @ + 1 ELSE @]

\* disconnect(): clearReconnectTimer(); this.ws.close(); this.ws = null
Disconnect(c) ==
  [ClearReconnectTimer(c) EXCEPT !.ws = "null",
                                 !.dropped = IF Live(c.ws) THEN @ + 1 ELSE @]

\* the program calls wsClient.connect()
ClientConnect(thrown) ==
  /\ up
  /\ wsc.dropped < MaxSockets
  /\ wsc' = [Connect(wsc, thrown) EXCEPT !.disconnected = FALSE]
  /\ UNCHANGED clientFrame

\* the program calls wsClient.disconnect()
ClientDisconnect ==
  /\ up
  /\ wsc.dropped < MaxSockets
  /\ wsc' = [Disconnect(wsc) EXCEPT !.disconnected = TRUE]
  /\ UNCHANGED clientFrame

\* this.ws.on("open"): isConnecting = false; clearReconnectTimer()
OnOpen ==
  /\ up
  /\ wsc.ws = "connecting"
  /\ wsc' = [ClearReconnectTimer(wsc) EXCEPT !.ws = "open", !.isConnecting = FALSE]
  /\ UNCHANGED clientFrame

\* this.ws.on("close") (and "error" before it) on the socket this.ws holds:
\* isConnecting = false; scheduleReconnect()
OnClose ==
  /\ up
  /\ Live(wsc.ws)
  /\ wsc' = [ScheduleReconnect(wsc) EXCEPT !.ws = "closed", !.isConnecting = FALSE]
  /\ UNCHANGED clientFrame

\* the same "close" handler, run for a socket the client has dropped
OnCloseDropped ==
  /\ up
  /\ wsc.dropped > 0
  /\ wsc' = [ScheduleReconnect(wsc) EXCEPT !.dropped = @ - 1, !.isConnecting = FALSE]
  /\ UNCHANGED clientFrame

\* the reconnect timer fires: this.connect()
ReconnectTimer(thrown) ==
  /\ up
  /\ wsc.reconnectTimer # NULL
  /\ now >= wsc.reconnectTimer
  /\ wsc.dropped < MaxSockets
  /\ wsc' = Connect(ClearReconnectTimer(wsc), thrown)
  /\ UNCHANGED clientFrame

NextClient ==
  \/ Tick
  \/ \E thrown \in BOOLEAN : ClientConnect(thrown)
  \/ ClientDisconnect
  \/ OnOpen
  \/ OnClose
  \/ OnCloseDropped
  \/ \E thrown \in BOOLEAN : ReconnectTimer(thrown)

ClientSpec == Init /\ [][NextClient]_vars

\* C40: after disconnect() is called no reconnect timer is armed and no new
\* connection attempt is made until the program calls connect() again: while
\* the last call was disconnect(), reconnectTimer is clear and this.ws is null.
C40_NoReconnectAfterDisconnect ==
  wsc.disconnected => (wsc.reconnectTimer = NULL /\ wsc.ws = "null")

====
